---------------------------- MODULE Spec2Model ----------------------------
(***************************************************************************)
(* Verification model of the backtesting pipeline of VibeTrader:          *)
(*   - the token-bucket rate limiter   (backtesting/utils/rate_limiter.py) *)
(*   - the HTTP request loop           (data/fetcher/binance_client.py)    *)
(*   - the raw-data cache              (data/storage/file_manager.py)      *)
(*   - the orchestrator                (agent/backtesting_agent.py)        *)
(* Each part has its own specification over its own group of variables;   *)
(* the other groups stay at their initial value.                          *)
(***************************************************************************)
EXTENDS Integers, Sequences, FiniteSets, TLC

VARIABLES
    \* ---- rate limiter (SpecRL) ----
    now,          \* time.monotonic(), a double, in seconds
    tokens,       \* bucket -> _tokens, a double
    lastUpdate,   \* bucket -> _last_update, a double
    lockHeld,     \* bucket -> caller holding _lock, 0 when free
    waiters,      \* bucket -> FIFO of callers blocked in _lock.acquire()
    rlpc,         \* caller -> bucket -> position of that RateLimiter.acquire task
    want,         \* caller -> weight of the WeightedRateLimiter.acquire in progress
    debitLog,     \* second -> weight units debited from the weight bucket in that second
    sleepUntil    \* caller -> bucket -> the time its asyncio.sleep is over, 0.0 when not asleep

rlVars == <<now, tokens, lastUpdate, lockHeld, waiters, rlpc, want, debitLog, sleepUntil>>

VARIABLES
    \* ---- one call of BinanceDataFetcher._make_request (SpecReq) ----
    mrPc,         \* "idle", "attempt", "send", "wait", "sleep429", "backoff", "done"
    mrMax,        \* the max_retries argument
    mrAttempt,    \* the loop variable attempt
    mrAcquires,   \* rate_limiter.acquire calls completed by this call
    mrRequests,   \* session.get requests issued by this call
    mrLast,       \* the response (or transport failure) of the latest request
    mrOnly429,    \* every request of this call so far was answered by a 429
    mrOnlyNet,    \* every request of this call so far failed in the transport
    mrSleeps,     \* the asyncio.sleep durations of this call, in order
    mrOutcome     \* how the call ended: the value returned or exception raised

mrVars == <<mrPc, mrMax, mrAttempt, mrAcquires, mrRequests, mrLast, mrOnly429, mrOnlyNet,
            mrSleeps, mrOutcome>>

VARIABLES
    \* ---- cache and orchestrator (Spec, SpecRepeat) ----
    cache,        \* the files of raw_data_dir: a set of [name, data]
    cache0,       \* the cache as it was when the current run started
    opc,          \* position of run_backtest: "idle", a stage name, "fetching", "returned"
    req,          \* the BacktestRequest of the current run
    kline,        \* kline_data, the series _fetch_data returned in this run
    resp,         \* the BacktestResponse being built
    stagesRun,    \* the stages this run has entered, in order
    failedAt,     \* the stage of this run that failed, "none" if none did
    netCalls,     \* fetch_klines calls (network fetches) made by this run
    result,       \* the LeanBacktestResult of this run's engine execution
    runs,         \* run_backtest calls started so far
    rep           \* phase of the repeated-request scenario, "off" outside it

orVars == <<cache, cache0, opc, req, kline, resp, stagesRun, failedAt,
            netCalls, result, runs, rep>>

VARIABLES
    \* ---- one call of BinanceDataFetcher.fetch_klines (SpecFetch) ----
    fkPc,         \* "idle", "chunking", "loop", "await", "done", "failed", "cancelled"
    fkReq,        \* start_time, end_time, interval_ms and default_limit of the call
    fkCur,        \* current_start of get_date_range_chunks
    fkChunks,     \* the (chunk_start, chunk_end) pairs yielded so far
    fkIdx,        \* chunks whose bars have been received
    fkSent,       \* chunk requests issued by this call
    fkAll,        \* all_bars
    fkOut,        \* the bars of the KlineData returned
    fkErr         \* the exception that left fetch_klines ("" when none)

fkVars == <<fkPc, fkReq, fkCur, fkChunks, fkIdx, fkSent, fkAll, fkOut, fkErr>>

VARIABLES
    \* ---- one call of LeanRunner.run_backtest (SpecRun) ----
    lrPc,         \* "idle", "check", "mkdtemp", "copy", "launch", "wait", "cleanup", "done"
    lrTimeout,    \* backtest_config.timeout_seconds
    lrElapsed,    \* seconds the runner has waited in process.communicate()
    lrDocker,     \* what _check_docker returned: "unknown", "up", "down"
    lrTemp,       \* the temporary directory: "none", "exists", "removed", "left"
    lrCopied,     \* the strategy file has been copied into the directory
    lrProc,       \* the docker subprocess: "none", "running", "exited", "killed"
    lrPending,    \* the result or exception on its way out through "finally"
    lrOutcome,    \* what the call returned or raised
    lrDeadline,   \* the wait ended because timeout_seconds had elapsed
    lrCancelled,  \* the task was cancelled during the launch or the wait
    lrPermErr,    \* rmtree met a permission error
    lrCode,       \* process.returncode once the process has exited (0 before)
    lrErr         \* the stderr that communicate() captured

lrVars == <<lrPc, lrTimeout, lrElapsed, lrDocker, lrTemp, lrCopied, lrProc,
            lrPending, lrOutcome, lrDeadline, lrCancelled, lrPermErr, lrCode,
            lrErr>>

VARIABLES
    \* ---- one call of LeanDataConverter.convert (SpecConv) ----
    cvPc,         \* "idle", "converting", "done"
    cvIn,         \* the KlineData passed to convert
    cvFiles,      \* the zip files under output_dir/crypto/binance
    cvCreated,    \* created_files, the files convert wrote and returns
    cvCalls,      \* the number of calls of convert so far
    cvDeleted     \* the count the last clean_converted_data returned

cvVars == <<cvPc, cvIn, cvFiles, cvCreated, cvCalls, cvDeleted>>

VARIABLES
    \* ---- one call of ResultsParser.parse_dict (SpecParse) ----
    prPc,         \* "idle", "parsing", "done"
    prIn,         \* the result dictionary passed to parse_dict
    prTotal,      \* metrics.total_trades of the report
    prWarnings    \* warnings of the last report

prVars == <<prPc, prIn, prTotal, prWarnings>>

VARIABLES
    \* ---- concurrent runs and their limiters (SpecShare) ----
    shPc,         \* run -> "idle", "fetching", "acquiring", "done"
    shLimiterOf,  \* run -> the fetcher's rate_limiter (index in shLimiters, 0 before the fetch)
    shLimiters,   \* the WeightedRateLimiter instances created: tokens of both buckets
    shSent,       \* run -> requests sent
    shGranted,    \* requests sent by all runs in the instant
    shWeight,     \* weight of the requests sent by all runs in the instant
    shTasks,      \* run -> the two acquire tasks of its gather: "none", "ready", "sleeping", "done"
    shWant,       \* run -> the weight of the request it is acquiring for
    shReady       \* the runs whose acquire tasks have a first step to run, in the order of the event loop

shVars == <<shPc, shLimiterOf, shLimiters, shSent, shGranted, shWeight, shTasks, shWant, shReady>>

VARIABLES
    \* ---- RateLimiter.acquire as time goes on (SpecAcquire) ----
    alPc,         \* caller -> "idle", "queued", "running", "sleeping"
    alAsk,        \* caller -> the tokens argument of its call
    alTokens,     \* _tokens
    alElapsed,    \* time since _last_update, up to one window
    alQueue       \* the callers waiting for _lock, in order of arrival

alVars == <<alPc, alAsk, alTokens, alElapsed, alQueue>>

VARIABLES
    \* ---- the strategy graph (SpecGraph) ----
    sgNode,       \* the node to run next ("idle": no invocation is running)
    sgFrom,       \* the node that ran last
    sgRetry,      \* compile_retry_count
    sgErrType,    \* last_error_type ("unset": the key is absent)
    sgErrors,     \* compile_errors, each known by the texts it contains
    sgSuccess,    \* compile_success
    sgCode,       \* strategy_code: "" or "code"
    sgTf,         \* strategy_spec["timeframe"]
    sgBacktest,   \* what the backtest of the last compile step did ("none": not run)
    sgMsg,        \* the error message of that backtest
    sgCompiles,   \* compile steps since the last user message
    sgAsked       \* the last user message answered a question asked after a compile step

sgVars == <<sgNode, sgFrom, sgRetry, sgErrType, sgErrors, sgSuccess, sgCode, sgTf, sgBacktest, sgMsg, sgCompiles, sgAsked>>

VARIABLES
    \* ---- concurrent fetch stages on one cache (SpecCache) ----
    ccPc,         \* run -> "idle", "fetching", "hit", "saved", "failed"
    ccReq,        \* run -> the range it asks for
    ccFiles,      \* the files of the cache directory
    ccSaved,      \* the series passed to save so far
    ccRead,       \* run -> the record find_cached returned to it
    ccNet,        \* network fetches started
    ccBoth        \* two runs were fetching at the same time

ccVars == <<ccPc, ccReq, ccFiles, ccSaved, ccRead, ccNet, ccBoth>>

VARIABLES
    \* ---- LeanDataConverter._create_csv_content on millisecond times ----
    ltPc,         \* idle | called
    ltBars,       \* the open times (ms) of the bars given
    ltRes,        \* the resolution given
    ltRows        \* the rows of the last content built

ltVars == <<ltPc, ltBars, ltRes, ltRows>>

VARIABLES
    \* ---- LeanRunner._parse_results ----
    rsPc,         \* idle | called
    rsDir,        \* the file names of the output directory
    rsResultsFile, \* results_file of the last result, or NoFile
    rsLogFile     \* log_file of the last result, or NoFile

rsVars == <<rsPc, rsDir, rsResultsFile, rsLogFile>>

VARIABLES
    \* ---- ResultsParser._parse_equity_curve ----
    eqPc,         \* idle | called | done
    eqIn,         \* the points of the Equity series given
    eqCurve       \* the equity curve returned

eqVars == <<eqPc, eqIn, eqCurve>>

VARIABLES
    \* ---- KlineData.merge ----
    mgPc,         \* idle | called | done
    mgSelf,       \* the series merge is called on
    mgOther,      \* the argument of merge
    mgOut         \* what merge returned or raised

mgVars == <<mgPc, mgSelf, mgOther, mgOut>>

VARIABLES
    \* ---- the requests of one fetch_klines call ----
    sqPc,         \* idle | acquire | send | wait | sleep | done | failed
    sqLimit,      \* the page size of the call
    sqChunks,     \* the number of chunks of the call
    sqChunk,      \* the chunk being fetched
    sqAttempt,    \* attempt of the for-loop of _make_request
    sqAcquires,   \* the weights of the acquires completed
    sqRequests,   \* the page sizes of the requests issued
    sqInFlight,   \* requests issued and not yet answered
    sqSleep       \* seconds of the asyncio.sleep being awaited, 0 when none

sqVars == <<sqPc, sqLimit, sqChunks, sqChunk, sqAttempt, sqAcquires, sqRequests, sqInFlight, sqSleep>>

VARIABLES
    \* ---- VibeTraderAgent message queue ----
    aqRunning,    \* self.running
    aqLoop,       \* the consumer task: none | new | waiting | invoking | error | outer | ended
    aqCancelling, \* a cancelled task not yet stepped: none | idle | invoking
    aqNode,       \* the graph invocation: none | running | clarify
    aqQueue,      \* message_queue
    aqPut,        \* messages put so far
    aqTaken,      \* the messages taken from the queue, in order, and by whom
    aqDone        \* calls of task_done

aqVars == <<aqRunning, aqLoop, aqCancelling, aqNode, aqQueue, aqPut, aqTaken, aqDone>>

VARIABLES
    \* ---- BacktestContext ----
    bcCash,       \* self.cash, a double
    bcPos,        \* self.positions for the symbol
    bcBar,        \* close of self.current_bar, or NoBar
    bcPlaced,     \* orders placed so far
    bcLast,       \* status of the last order result
    bcBefore      \* cash and position before the last order

bcVars == <<bcCash, bcPos, bcBar, bcPlaced, bcLast, bcBefore>>

vars == <<rlVars, mrVars, orVars, fkVars, lrVars, cvVars, prVars, shVars, alVars, sgVars, ccVars, ltVars, rsVars, eqVars, mgVars, sqVars, aqVars, bcVars>>

\* What the actions of each part leave alone.
notRL == <<mrVars, orVars, fkVars, lrVars, cvVars, prVars, shVars, alVars, sgVars, ccVars, ltVars, rsVars, eqVars, mgVars, sqVars, aqVars, bcVars>>
notMR == <<rlVars, orVars, fkVars, lrVars, cvVars, prVars, shVars, alVars, sgVars, ccVars, ltVars, rsVars, eqVars, mgVars, sqVars, aqVars, bcVars>>
notOR == <<rlVars, mrVars, fkVars, lrVars, cvVars, prVars, shVars, alVars, sgVars, ccVars, ltVars, rsVars, eqVars, mgVars, sqVars, aqVars, bcVars>>
notFK == <<rlVars, mrVars, orVars, lrVars, cvVars, prVars, shVars, alVars, sgVars, ccVars, ltVars, rsVars, eqVars, mgVars, sqVars, aqVars, bcVars>>
notLR == <<rlVars, mrVars, orVars, fkVars, cvVars, prVars, shVars, alVars, sgVars, ccVars, ltVars, rsVars, eqVars, mgVars, sqVars, aqVars, bcVars>>
notCV == <<rlVars, mrVars, orVars, fkVars, lrVars, prVars, shVars, alVars, sgVars, ccVars, ltVars, rsVars, eqVars, mgVars, sqVars, aqVars, bcVars>>
notPR == <<rlVars, mrVars, orVars, fkVars, lrVars, cvVars, shVars, alVars, sgVars, ccVars, ltVars, rsVars, eqVars, mgVars, sqVars, aqVars, bcVars>>
notSH == <<rlVars, mrVars, orVars, fkVars, lrVars, cvVars, prVars, alVars, sgVars, ccVars, ltVars, rsVars, eqVars, mgVars, sqVars, aqVars, bcVars>>
notAL == <<rlVars, mrVars, orVars, fkVars, lrVars, cvVars, prVars, shVars, sgVars, ccVars, ltVars, rsVars, eqVars, mgVars, sqVars, aqVars, bcVars>>
notSG == <<rlVars, mrVars, orVars, fkVars, lrVars, cvVars, prVars, shVars, alVars, ccVars, ltVars, rsVars, eqVars, mgVars, sqVars, aqVars, bcVars>>
notCC == <<rlVars, mrVars, orVars, fkVars, lrVars, cvVars, prVars, shVars, alVars, sgVars, ltVars, rsVars, eqVars, mgVars, sqVars, aqVars, bcVars>>
notLT == <<rlVars, mrVars, orVars, fkVars, lrVars, cvVars, prVars, shVars, alVars, sgVars, ccVars, rsVars, eqVars, mgVars, sqVars, aqVars, bcVars>>
notRS == <<rlVars, mrVars, orVars, fkVars, lrVars, cvVars, prVars, shVars, alVars, sgVars, ccVars, ltVars, eqVars, mgVars, sqVars, aqVars, bcVars>>
notEQ == <<rlVars, mrVars, orVars, fkVars, lrVars, cvVars, prVars, shVars, alVars, sgVars, ccVars, ltVars, rsVars, mgVars, sqVars, aqVars, bcVars>>
notMG == <<rlVars, mrVars, orVars, fkVars, lrVars, cvVars, prVars, shVars, alVars, sgVars, ccVars, ltVars, rsVars, eqVars, sqVars, aqVars, bcVars>>
notSQ == <<rlVars, mrVars, orVars, fkVars, lrVars, cvVars, prVars, shVars, alVars, sgVars, ccVars, ltVars, rsVars, eqVars, mgVars, aqVars, bcVars>>
notAQ == <<rlVars, mrVars, orVars, fkVars, lrVars, cvVars, prVars, shVars, alVars, sgVars, ccVars, ltVars, rsVars, eqVars, mgVars, sqVars, bcVars>>
notBC == <<rlVars, mrVars, orVars, fkVars, lrVars, cvVars, prVars, shVars, alVars, sgVars, ccVars, ltVars, rsVars, eqVars, mgVars, sqVars, aqVars>>

Min(a, b) == IF a <= b THEN a ELSE b
Max(a, b) == IF a >= b THEN a ELSE b

\* A backoff that grows by one second per attempt.
Pow2Linear(n) == n + 1

RECURSIVE Pow2(_)
Pow2(n) == IF n = 0 THEN 1 ELSE 2 * Pow2(n - 1)

(***************************************************************************)
(*                           PYTHON FLOATS                                 *)
(***************************************************************************)

Abs(x) == IF x < 0 THEN 0 - x ELSE x
Sgn(x) == IF x > 0 THEN 1 ELSE IF x < 0 THEN 0 - 1 ELSE 0

\* ---- Python floats ----
\* A Python float is an IEEE 754 double, sign * mant * 2^exp, with mant a
\* natural number of MantissaBits bits; zero has sign 0 (0.0 and -0.0 are
\* equal).  A natural number of any size is the sequence of its digits to the
\* base 2^LimbBits, lowest first and without leading zeros.
MantissaBits == 53
LimbBits == 13
LimbBase == Pow2(LimbBits)
\* Bits a mantissa is extended by before it is divided, so that the quotient
\* has more than MantissaBits bits.
GuardBits == 64

ZeroFloat == [sign |-> 0, mant |-> << >>, exp |-> 0]

RECURSIVE Digits(_)
Digits(v) ==
    IF v = 0 THEN << >> ELSE <<v % LimbBase>> \o Digits(v \div LimbBase)

RECURSIVE TrimNat(_)
TrimNat(a) ==
    IF a = << >> THEN << >>
    ELSE IF a[Len(a)] = 0 THEN TrimNat(SubSeq(a, 1, Len(a) - 1))
    ELSE a

Limb(a, i) == IF i <= Len(a) THEN a[i] ELSE 0

RECURSIVE AddNat(_, _, _, _)
AddNat(a, b, i, carry) ==
    IF i > Max(Len(a), Len(b))
    THEN (IF carry = 0 THEN << >> ELSE <<carry>>)
    ELSE LET sum == Limb(a, i) + Limb(b, i) + carry
         IN <<sum % LimbBase>> \o AddNat(a, b, i + 1, sum \div LimbBase)

RECURSIVE SubNat(_, _, _, _)
\* a - b for a >= b.
SubNat(a, b, i, borrow) ==
    IF i > Len(a) THEN << >>
    ELSE LET d == Limb(a, i) - Limb(b, i) - borrow
         IN <<(d + LimbBase) % LimbBase>>
            \o SubNat(a, b, i + 1, IF d < 0 THEN 1 ELSE 0)

RECURSIVE MulLimb(_, _, _, _)
\* a * k for one digit k.
MulLimb(a, k, i, carry) ==
    IF i > Len(a) THEN (IF carry = 0 THEN << >> ELSE <<carry>>)
    ELSE LET sum == Limb(a, i) * k + carry
         IN <<sum % LimbBase>> \o MulLimb(a, k, i + 1, sum \div LimbBase)

RECURSIVE MulNat(_, _)
MulNat(a, b) ==
    IF b = << >> THEN << >>
    ELSE AddNat(MulLimb(a, b[1], 1, 0), <<0>> \o MulNat(a, Tail(b)), 1, 0)

RECURSIVE DivNat(_, _, _, _)
\* Quotient and remainder of the digits i..1 of a, after remainder r of the
\* digits above them, by a small k > 0.
DivNat(a, k, i, r) ==
    IF i = 0 THEN [q |-> << >>, r |-> r]
    ELSE LET v == r * LimbBase + a[i]
             rest == DivNat(a, k, i - 1, v % k)
         IN [q |-> Append(rest.q, v \div k), r |-> rest.r]

RECURSIVE LessDigits(_, _, _)
LessDigits(a, b, i) ==
    IF i = 0 THEN FALSE
    ELSE IF a[i] # b[i] THEN a[i] < b[i]
    ELSE LessDigits(a, b, i - 1)

LessNat(a, b) ==
    IF Len(a) # Len(b) THEN Len(a) < Len(b) ELSE LessDigits(a, b, Len(a))

RECURSIVE BitLength(_)
BitLength(v) == IF v = 0 THEN 0 ELSE 1 + BitLength(v \div 2)

\* The number of bits of a.
BitLen(a) ==
    IF a = << >> THEN 0 ELSE LimbBits * (Len(a) - 1) + BitLength(a[Len(a)])

\* a * 2^d and a \div 2^d.
ShiftLeft(a, d) ==
    TrimNat([i \in 1..(d \div LimbBits) |-> 0]
            \o MulLimb(a, Pow2(d % LimbBits), 1, 0))
ShiftRight(a, d) ==
    LET rest == SubSeq(a, d \div LimbBits + 1, Len(a))
    IN TrimNat(DivNat(rest, Pow2(d % LimbBits), Len(rest), 0).q)

\* The double sign * m * 2^e for m of MantissaBits bits or one more, which
\* is then even.
Normalised(sign, m, e) ==
    IF BitLen(m) > MantissaBits
    THEN [sign |-> sign, mant |-> ShiftRight(m, 1), exp |-> e + 1]
    ELSE [sign |-> sign, mant |-> m, exp |-> e]

\* q * 2^e with rem * 2^(e - d) cut off, rounded to the nearest, ties to the
\* even q; half is 2^(d - 1).
RoundHalfEven(sign, q, rem, half, e, sticky) ==
    Normalised(sign,
               IF \/ LessNat(half, rem)
                  \/ rem = half /\ (sticky \/ q[1] % 2 = 1)
               THEN AddNat(q, <<1>>, 1, 0)
               ELSE q,
               e)

RoundQuotient(sign, n, q, d, e, sticky) ==
    RoundHalfEven(sign, q, TrimNat(SubNat(n, ShiftLeft(q, d), 1, 0)),
                  ShiftLeft(<<1>>, d - 1), e + d, sticky)

\* The double nearest to sign * n * 2^e for n of len bits; sticky says that
\* the exact value is a little more than that.
RoundDigits(sign, n, len, e, sticky) ==
    IF len = 0 THEN ZeroFloat
    ELSE IF len <= MantissaBits
    THEN [sign |-> sign, mant |-> ShiftLeft(n, MantissaBits - len),
          exp |-> e - (MantissaBits - len)]
    ELSE RoundQuotient(sign, n, ShiftRight(n, len - MantissaBits),
                       len - MantissaBits, e, sticky)

RoundTrimmed(sign, n, e, sticky) == RoundDigits(sign, n, BitLen(n), e, sticky)
RoundFloat(sign, digits, e, sticky) ==
    RoundTrimmed(sign, TrimNat(digits), e, sticky)

\* float(k) of an int k.
IntFloat(k) == RoundFloat(Sgn(k), Digits(Abs(k)), 0, FALSE)

\* x * y for doubles x and y.
MulFloats(x, y) ==
    IF x.sign = 0 \/ y.sign = 0 THEN ZeroFloat
    ELSE RoundFloat(x.sign * y.sign, MulNat(x.mant, y.mant), x.exp + y.exp, FALSE)

\* x * k for a double x and an int k.
MulFloat(x, k) == MulFloats(x, IntFloat(k))

\* sx * nx * 2^e + sy * ny * 2^e
AddAligned(sx, nx, sy, ny, e) ==
    RoundFloat(IF sx = sy \/ ~LessNat(nx, ny) THEN sx ELSE sy,
               IF sx = sy THEN AddNat(nx, ny, 1, 0)
               ELSE IF LessNat(nx, ny) THEN SubNat(ny, nx, 1, 0)
               ELSE SubNat(nx, ny, 1, 0),
               e, FALSE)

AddExponent(x, y, e) ==
    AddAligned(x.sign, ShiftLeft(x.mant, x.exp - e),
               y.sign, ShiftLeft(y.mant, y.exp - e), e)

\* x + y for doubles x and y.
AddFloat(x, y) ==
    IF x.sign = 0 THEN y
    ELSE IF y.sign = 0 THEN x
    ELSE AddExponent(x, y, Min(x.exp, y.exp))

\* The double nearest to sign * d.q * 2^e, d.r being the remainder left.
RoundDivided(sign, d, e) == RoundFloat(sign, d.q, e, d.r # 0)
DivDigits(sign, a, k, e) == RoundDivided(sign, DivNat(a, k, Len(a), 0), e)

\* x / k for a double x and an int k # 0.
DivFloat(x, k) ==
    IF x.sign = 0 THEN ZeroFloat
    ELSE DivDigits(x.sign * Sgn(k), ShiftLeft(x.mant, GuardBits), Abs(k),
                   x.exp - GuardBits)

NegFloat(x) == [x EXCEPT !.sign = 0 - x.sign]
AbsFloat(x) == [x EXCEPT !.sign = Abs(x.sign)]
SubFloat(x, y) == IF x = y THEN ZeroFloat ELSE AddFloat(x, NegFloat(y))
\* |x| > |y| for doubles x and y other than zero: mantissas have
\* MantissaBits bits each.
GreaterMagnitude(x, y) ==
    IF x.exp # y.exp THEN x.exp > y.exp ELSE LessNat(y.mant, x.mant)
\* x > y for doubles x and y.
GreaterFloat(x, y) ==
    IF x.sign # y.sign THEN x.sign > y.sign
    ELSE IF x.sign = 0 THEN FALSE
    ELSE IF x.sign > 0 THEN GreaterMagnitude(x, y)
    ELSE GreaterMagnitude(y, x)

\* Digits of the quotient a double is divided to: GuardBits + 1 bits.
QuotientLimbs == (GuardBits + 1) \div LimbBits
\* Bits a divisor mantissa is shifted by to fill QuotientLimbs digits.
DivisorShift == QuotientLimbs * LimbBits - MantissaBits

RECURSIVE DivDigit(_, _, _)
\* The greatest digit q <= guess with q * d <= r.
DivDigit(r, d, guess) ==
    IF LessNat(r, TrimNat(MulLimb(d, guess, 1, 0)))
    THEN DivDigit(r, d, guess - 1)
    ELSE guess

\* The digit r \div d for r < d * LimbBase, d filling its highest digit by
\* half or more: the guess from the highest digits is at most 2 too large.
DivDigitOf(r, d) ==
    DivDigit(r, d,
             Min(LimbBase - 1,
                 (Limb(r, Len(d) + 1) * LimbBase + Limb(r, Len(d)))
                     \div d[Len(d)]))

RECURSIVE DivLimbs(_, _, _)
WithDigit(rest, digit) == [q |-> Append(rest.q, digit), r |-> rest.r]
DivLimbRest(r, d, n, digit) ==
    WithDigit(DivLimbs(TrimNat(SubNat(r, MulLimb(d, digit, 1, 0), 1, 0)),
                       d, n - 1),
              digit)
DivLimbStep(r, d, n) == DivLimbRest(r, d, n, DivDigitOf(r, d))
\* The next n digits of r / d, and the remainder, for r < d.
DivLimbs(r, d, n) ==
    IF n = 0 THEN [q |-> << >>, r |-> r]
    ELSE DivLimbStep(TrimNat(<<0>> \o r), d, n)

RoundLong(sign, d, e) == RoundFloat(sign, d.q, e, d.r # << >>)

\* x / y for doubles x and y # 0.
DivFloats(x, y) ==
    IF x.sign = 0 THEN ZeroFloat
    ELSE RoundLong(x.sign * y.sign,
                   DivLimbs(ShiftLeft(x.mant, DivisorShift - 1),
                            ShiftLeft(y.mant, DivisorShift), QuotientLimbs),
                   x.exp - y.exp - GuardBits)

RECURSIVE NatValue(_)
NatValue(a) == IF a = << >> THEN 0 ELSE a[1] + LimbBase * NatValue(Tail(a))

\* int(x) for a double x >= 0.
Floor(x) ==
    IF x.sign = 0 THEN 0
    ELSE IF x.exp >= 0 THEN NatValue(ShiftLeft(x.mant, x.exp))
    ELSE NatValue(ShiftRight(x.mant, 0 - x.exp))

(***************************************************************************)
(*                            RATE LIMITER                                 *)
(***************************************************************************)

\* Model sizes (the program runs with 1200 requests, 6000 weight, 60 s).  A
\* tick of the clock is one second, so window_seconds is float(WindowTicks).
MaxRequests == 2
MaxWeight == 3
WindowTicks == 3
MaxTime == 2
NumCallers == 2
MaxCallWeight == 2

Callers == 1..NumCallers
Buckets == {"request", "weight"}
Ticks == 0..MaxTime

\* RateLimiter.max_requests of the two buckets of a WeightedRateLimiter.
Capacity(b) == IF b = "request" THEN MaxRequests ELSE MaxWeight

\* What WeightedRateLimiter.acquire(weight) asks of each bucket.
Need(b, w) == IF b = "request" THEN 1 ELSE w

\* float(n) of the ints n of the rate limiter: capacities, amounts asked for
\* and whole seconds.
MaxSmallInt == Max(Max(MaxWeight, MaxRequests), Max(MaxCallWeight, MaxTime + 1))
SmallFloats == [n \in 0..MaxSmallInt |-> IntFloat(n)]
SmallFloat(n) == SmallFloats[n]

\* refill_rate = self.max_requests / self.window_seconds, a double.
RefillRates ==
    [b \in Buckets |->
        DivFloats(SmallFloat(Capacity(b)), IntFloat(WindowTicks))]
RefillRate(b) == RefillRates[b]

\* self._tokens + elapsed * refill_rate, elapsed = now - self._last_update.
Refilled(b, tk, last, t) ==
    AddFloat(tk, MulFloats(SubFloat(t, last), RefillRate(b)))

\* A refill with no cap at the capacity of the bucket.
RefillUncapped(b, tk, last, t) == Refilled(b, tk, last, t)

\* min(max_requests, refilled): refilled when it is below max_requests.
Capped(cap, refilled) == IF GreaterFloat(cap, refilled) THEN refilled ELSE cap

\* RateLimiter._refill: tokens = min(max, tokens + elapsed * max / window),
\* in doubles.
Refill(b, tk, last, t) ==
    Capped(SmallFloat(Capacity(b)), Refilled(b, tk, last, t))

\* The longest sleep of the loop of acquire, 1.0 s.
MaxSleep == SmallFloat(1)

\* min(wait_time, 1.0) for wait_time = needed / refill_rate.
SleepTime(wait_time) ==
    IF GreaterFloat(wait_time, MaxSleep) THEN MaxSleep ELSE wait_time

\* The time at which asyncio.sleep(min(wait_time, 1.0)) called at t is over.
SleepEnd(b, needed, t) ==
    AddFloat(t, SleepTime(DivFloats(needed, RefillRate(b))))

\* The test of the loop on the refilled tokens tk: debit and return
\* (releasing the lock), or go to sleep with the lock still held.
LoopTest(c, b, n, need, tk) ==
    IF ~GreaterFloat(need, tk)
    THEN [tok |-> SubFloat(tk, need), last |-> now, held |-> 0,
          q |-> waiters[b], pc |-> "done", deb |-> n, until |-> ZeroFloat]
    ELSE [tok |-> tk, last |-> now, held |-> c,
          q |-> waiters[b], pc |-> "sleeping", deb |-> 0,
          until |-> SleepEnd(b, SubFloat(need, tk), now)]

\* One pass of the while-loop of RateLimiter.acquire, run by caller c holding
\* the lock of bucket b: refill, then test.
LoopBody(c, b, n) ==
    LoopTest(c, b, n, SmallFloat(n), Refill(b, tokens[b], lastUpdate[b], now))

\* Entry of RateLimiter.acquire: "async with self._lock" takes a free lock
\* with no waiters at once, otherwise the task queues (asyncio.Lock is FIFO).
Enter(c, b, n) ==
    IF lockHeld[b] = 0 /\ waiters[b] = << >>
    THEN LoopBody(c, b, n)
    ELSE [tok |-> tokens[b], last |-> lastUpdate[b], held |-> lockHeld[b],
          q |-> Append(waiters[b], c), pc |-> "waitlock", deb |-> 0,
          until |-> ZeroFloat]

\* Writes the outcome r of one task step on bucket b back into the state.
Apply(c, b, r) ==
    /\ tokens' = [tokens EXCEPT ![b] = r.tok]
    /\ lastUpdate' = [lastUpdate EXCEPT ![b] = r.last]
    /\ lockHeld' = [lockHeld EXCEPT ![b] = r.held]
    /\ waiters' = [waiters EXCEPT ![b] = r.q]
    /\ rlpc' = [rlpc EXCEPT ![c][b] = r.pc]
    /\ debitLog' = IF b = "weight"
                   THEN [debitLog EXCEPT ![Floor(now)] = @ + r.deb]
                   ELSE debitLog
    /\ sleepUntil' = [sleepUntil EXCEPT ![c][b] = r.until]

RLInit ==
    /\ now = ZeroFloat
    /\ tokens = [b \in Buckets |-> SmallFloat(Capacity(b))]
    /\ lastUpdate = [b \in Buckets |-> ZeroFloat]
    /\ lockHeld = [b \in Buckets |-> 0]
    /\ waiters = [b \in Buckets |-> << >>]
    /\ rlpc = [c \in Callers |-> [b \in Buckets |-> "idle"]]
    /\ want = [c \in Callers |-> 0]
    /\ debitLog = [t \in Ticks |-> 0]
    /\ sleepUntil = [c \in Callers |-> [b \in Buckets |-> ZeroFloat]]

\* The state after both bucket tasks of caller c ran to their first
\* suspension, with outcomes rq and wt.
Started(c, w, rq, wt) ==
    /\ tokens' = [b \in Buckets |-> IF b = "request" THEN rq.tok ELSE wt.tok]
    /\ lastUpdate' =
           [b \in Buckets |-> IF b = "request" THEN rq.last ELSE wt.last]
    /\ lockHeld' =
           [b \in Buckets |-> IF b = "request" THEN rq.held ELSE wt.held]
    /\ waiters' = [b \in Buckets |-> IF b = "request" THEN rq.q ELSE wt.q]
    /\ rlpc' = [rlpc EXCEPT ![c] =
                   [b \in Buckets |-> IF b = "request" THEN rq.pc ELSE wt.pc]]
    /\ debitLog' = [debitLog EXCEPT ![Floor(now)] = @ + wt.deb]
    /\ sleepUntil' = [sleepUntil EXCEPT ![c] =
                         [b \in Buckets |->
                             IF b = "request" THEN rq.until ELSE wt.until]]
    /\ want' = [want EXCEPT ![c] = w]

\* WeightedRateLimiter.acquire(w): asyncio.gather starts both bucket tasks;
\* they are queued back to back, so each runs up to its first suspension
\* before anything else does.
RLCall(c, w) ==
    /\ \A b \in Buckets : rlpc[c][b] = "idle"
    /\ Started(c, w, Enter(c, "request", 1), Enter(c, "weight", w))
    /\ UNCHANGED <<now, notRL>>

\* A queued task is woken by the release of the lock and takes it.
RLGrant(c, b) ==
    /\ rlpc[c][b] = "waitlock"
    /\ lockHeld[b] = 0
    /\ waiters[b] # << >>
    /\ Head(waiters[b]) = c
    /\ Apply(c, b, [LoopBody(c, b, Need(b, want[c]))
                       EXCEPT !.q = Tail(waiters[b])])
    /\ UNCHANGED <<now, want, notRL>>

\* asyncio.sleep(min(wait_time, 1.0)) is over, the clock having reached the
\* end of the sleep: the loop runs again.
RLWake(c, b) ==
    /\ rlpc[c][b] = "sleeping"
    /\ ~GreaterFloat(sleepUntil[c][b], now)
    /\ Apply(c, b, LoopBody(c, b, Need(b, want[c])))
    /\ UNCHANGED <<now, want, notRL>>

\* gather returns once both bucket tasks have returned.
RLReturn(c) ==
    /\ \A b \in Buckets : rlpc[c][b] = "done"
    /\ rlpc' = [rlpc EXCEPT ![c] = [b \in Buckets |-> "idle"]]
    /\ want' = [want EXCEPT ![c] = 0]
    /\ UNCHANGED <<now, tokens, lastUpdate, lockHeld, waiters, debitLog,
                   sleepUntil, notRL>>

\* available_tokens of bucket b is read (available_requests and
\* available_weight of the WeightedRateLimiter): _refill runs without the
\* lock, whoever holds it.
RLAvailable(b) ==
    /\ tokens' = [tokens EXCEPT ![b] = Refill(b, tokens[b], lastUpdate[b], now)]
    /\ lastUpdate' = [lastUpdate EXCEPT ![b] = now]
    /\ UNCHANGED <<now, lockHeld, waiters, rlpc, want, debitLog, sleepUntil,
                   notRL>>

\* The monotonic clock reaches the next whole second.
RLTick ==
    /\ Floor(now) < MaxTime
    /\ now' = SmallFloat(Floor(now) + 1)
    /\ UNCHANGED <<tokens, lastUpdate, lockHeld, waiters, rlpc, want, debitLog,
                   sleepUntil, notRL>>

\* The monotonic clock reaches the end of the sleep of caller c on bucket b,
\* which lies before the next whole second.
RLTimer(c, b) ==
    /\ rlpc[c][b] = "sleeping"
    /\ GreaterFloat(sleepUntil[c][b], now)
    /\ GreaterFloat(SmallFloat(Floor(now) + 1), sleepUntil[c][b])
    /\ now' = sleepUntil[c][b]
    /\ UNCHANGED <<tokens, lastUpdate, lockHeld, waiters, rlpc, want, debitLog,
                   sleepUntil, notRL>>

RLNext ==
    \/ \E c \in Callers, w \in 1..MaxCallWeight : RLCall(c, w)
    \/ \E c \in Callers, b \in Buckets : RLGrant(c, b)
    \/ \E c \in Callers, b \in Buckets : RLWake(c, b)
    \/ \E c \in Callers : RLReturn(c)
    \/ \E b \in Buckets : RLAvailable(b)
    \/ RLTick
    \/ \E c \in Callers, b \in Buckets : RLTimer(c, b)

(***************************************************************************)
(*                 BinanceDataFetcher._make_request                        *)
(***************************************************************************)

\* The default of the max_retries parameter.
DefaultMaxRetries == 3
\* The largest max_retries a caller passes.
MaxRetriesArg == 4
\* The sleep after a 429 whose Retry-After header is absent.
DefaultRetryAfter == 60

\* What one session.get can produce.  "transport" is an aiohttp.ClientError
\* raised by the request itself.  An HTTP response has a status, a body that
\* is JSON or not (response.json() raises ContentTypeError, a ClientError, on
\* a body that is not JSON), the error body's code and msg ("None" when the
\* key is absent) and the Retry-After header (0 when absent).
ErrorBodies ==
    { [code |-> "-1121", msg |-> "Invalid symbol."],
      [code |-> "-1003", msg |-> "Too many requests."],
      [code |-> "None", msg |-> "None"] }
Transport ==
    [kind |-> "transport", status |-> 0, json |-> FALSE, code |-> "None",
     msg |-> "None", retryAfter |-> 0]
HttpOk ==
    { [kind |-> "http", status |-> 200, json |-> j, code |-> "None",
       msg |-> "None", retryAfter |-> 0] : j \in BOOLEAN }
HttpErrors ==
    { [kind |-> "http", status |-> st, json |-> TRUE, code |-> b.code,
       msg |-> b.msg, retryAfter |-> ra] :
          st \in {429, 418, 400}, b \in ErrorBodies, ra \in {0, 7} }
    \cup
    { [kind |-> "http", status |-> st, json |-> FALSE, code |-> "None",
       msg |-> "None", retryAfter |-> 0] : st \in {429, 418, 502} }
Responses == {Transport} \cup HttpOk \cup HttpErrors

NoResponse ==
    [kind |-> "none", status |-> 0, json |-> FALSE, code |-> "None",
     msg |-> "None", retryAfter |-> 0]
NoOutcome == [kind |-> "none", status |-> 0, code |-> "None", message |-> << >>]

\* error_data.get("msg", "Unknown error")
ErrorMsg(r) == IF r.msg = "None" THEN "Unknown error" ELSE r.msg

\* int(response.headers.get("Retry-After", 60))
RetryAfterSeconds(r) ==
    IF r.retryAfter = 0 THEN DefaultRetryAfter ELSE r.retryAfter

\* BinanceAPIError(418, f"IP banned until {ban_until}", error_code) for a 418,
\* BinanceAPIError(response.status, error_msg, error_code) otherwise.
ApiError(r) ==
    IF r.status = 418
    THEN [kind |-> "BinanceAPIError", status |-> 418, code |-> r.code,
          message |-> <<"IP banned until",
                        IF r.retryAfter = 0 THEN "unknown" ELSE "Retry-After">>]
    ELSE [kind |-> "BinanceAPIError", status |-> r.status, code |-> r.code,
          message |-> <<ErrorMsg(r)>>]


\* The request failed inside the try block with an aiohttp.ClientError.
IsClientError(r) == r.kind = "transport" \/ ~r.json

MRInit ==
    /\ mrPc = "idle"
    /\ mrMax = 0
    /\ mrAttempt = 0
    /\ mrAcquires = 0
    /\ mrRequests = 0
    /\ mrLast = NoResponse
    /\ mrOnly429 = TRUE
    /\ mrOnlyNet = TRUE
    /\ mrSleeps = << >>
    /\ mrOutcome = NoOutcome

\* _make_request(endpoint, params, max_retries) is called.
MRStart(m) ==
    /\ mrPc = "idle"
    /\ mrPc' = "attempt"
    /\ mrMax' = m
    /\ mrAttempt' = 0
    /\ mrAcquires' = 0
    /\ mrRequests' = 0
    /\ mrLast' = NoResponse
    /\ mrOnly429' = TRUE
    /\ mrOnlyNet' = TRUE
    /\ mrSleeps' = << >>
    /\ mrOutcome' = NoOutcome
    /\ UNCHANGED <<notMR>>

\* Top of the for-loop body: await self.rate_limiter.acquire(weight).
MRAcquire ==
    /\ mrPc = "attempt"
    /\ mrAttempt < mrMax
    /\ mrAcquires' = mrAcquires + 1
    /\ mrPc' = "send"
    /\ UNCHANGED <<mrMax, mrAttempt, mrRequests, mrLast, mrOnly429, mrOnlyNet,
                   mrSleeps, mrOutcome, notMR>>

\* acquire has returned: session.get issues the request and the call waits
\* for what comes back.
MRSend ==
    /\ mrPc = "send"
    /\ mrRequests' = mrRequests + 1
    /\ mrPc' = "wait"
    /\ UNCHANGED <<mrMax, mrAttempt, mrAcquires, mrLast, mrOnly429, mrOnlyNet,
                   mrSleeps, mrOutcome, notMR>>

\* What comes back (the response and its body, or a transport error) and its
\* handling, up to the next await of a sleep or the end of the call.
MRResponse(r) ==
    /\ mrPc = "wait"
    /\ mrLast' = r
    /\ mrOnly429' = (mrOnly429 /\ r.kind = "http" /\ r.status = 429)
    /\ mrOnlyNet' = (mrOnlyNet /\ r.kind = "transport")
    /\ IF r.kind = "http" /\ r.status = 200 /\ r.json
       THEN /\ mrPc' = "done"
            /\ mrOutcome' = [kind |-> "return", status |-> 200,
                             code |-> "None", message |-> << >>]
            /\ UNCHANGED mrSleeps
       ELSE IF IsClientError(r)
       THEN IF mrAttempt < mrMax - 1
            THEN /\ mrPc' = "backoff"
                 /\ mrSleeps' = Append(mrSleeps, Pow2(mrAttempt))
                 /\ UNCHANGED mrOutcome
            ELSE /\ mrPc' = "done"
                 /\ mrOutcome' = [kind |-> "ClientError", status |-> r.status,
                                  code |-> "None", message |-> << >>]
                 /\ UNCHANGED mrSleeps
       ELSE IF r.status = 429
       THEN /\ mrPc' = "sleep429"
            /\ mrSleeps' = Append(mrSleeps, RetryAfterSeconds(r))
            /\ UNCHANGED mrOutcome
       ELSE /\ mrPc' = "done"
            /\ mrOutcome' = ApiError(r)
            /\ UNCHANGED mrSleeps
    /\ UNCHANGED <<mrMax, mrAttempt, mrAcquires, mrRequests, notMR>>

\* The sleep is over (the "continue" after a 429, or the end of the except
\* block): the for-loop moves to the next attempt, or is exhausted and the
\* call raises RuntimeError("Max retries exceeded").
MRNextAttempt ==
    /\ mrPc \in {"sleep429", "backoff"}
    /\ mrAttempt' = mrAttempt + 1
    /\ IF mrAttempt + 1 < mrMax
       THEN /\ mrPc' = "attempt"
            /\ UNCHANGED mrOutcome
       ELSE /\ mrPc' = "done"
            /\ mrOutcome' = [kind |-> "RuntimeError", status |-> 0,
                             code |-> "None",
                             message |-> <<"Max retries exceeded">>]
    /\ UNCHANGED <<mrMax, mrAcquires, mrRequests, mrLast, mrOnly429, mrOnlyNet,
                   mrSleeps, notMR>>

\* The caller has the result; the fetcher is free for its next call.
MRFinish ==
    /\ mrPc = "done"
    /\ mrPc' = "idle"
    /\ UNCHANGED <<mrMax, mrAttempt, mrAcquires, mrRequests, mrLast, mrOnly429,
                   mrOnlyNet, mrSleeps, mrOutcome, notMR>>

MRNext ==
    \/ \E m \in {DefaultMaxRetries} \cup (1..MaxRetriesArg) : MRStart(m)
    \/ MRAcquire
    \/ MRSend
    \/ \E r \in Responses : MRResponse(r)
    \/ MRNextAttempt
    \/ MRFinish

(***************************************************************************)
(*                     TIME, BARS AND SERIES                               *)
(***************************************************************************)

\* INTERVAL_MINUTES of the two intervals of the model.
Hour12Minutes == 720
Day1Minutes == 1440
Intervals == {"12h", "1d"}
IntervalMinutes(i) == IF i = "12h" THEN Hour12Minutes ELSE Day1Minutes

\* Time is counted in ticks of 12 hours: every instant of the model (request
\* bounds, open times) is a multiple of 12 h, and a close time, which is 1 ms
\* before such a multiple, is kept as the tick it falls in.  Comparisons and
\* calendar days of these instants are the same in ticks as in milliseconds.
TickMinutes == Hour12Minutes
\* get_interval_ms, in ticks.
IntervalTicks(i) == IntervalMinutes(i) \div TickMinutes
\* Length of a UTC calendar day, in ticks.
DayTicks == Day1Minutes \div TickMinutes
\* ms_to_timestamp(t).strftime("%Y%m%d"): the UTC calendar day of an instant.
Day(t) == t \div DayTicks
\* KlineBar.close_time of the bar that opens at t.
CloseTime(t, i) == t + IntervalTicks(i) - 1

\* The last instant a request may name.
MaxTick == 2
\* The number of run_backtest calls followed.
MaxRuns == 2
Times == 0..MaxTick
Symbols == {"BTCUSDT"}
\* str.upper on the symbols of the model.
Upper(sym) == IF sym = "btcusdt" THEN "BTCUSDT" ELSE sym

\* Optional[int] = None of KlineData.start_time / end_time.
NoneTime == -1

RECURSIVE SortedSeq(_)
\* sorted(bars, key=open_time) of a set of open times.
SortedSeq(S) ==
    IF S = {} THEN << >>
    ELSE LET m == CHOOSE x \in S : \A y \in S : x <= y
         IN <<m>> \o SortedSeq(S \ {m})

\* KlineData(symbol, interval, bars) with __post_init__: a bar is known by its
\* open time; start_time and end_time come from the first and the last bar.
MkSeries(sym, itv, bars) ==
    [symbol |-> sym, interval |-> itv, bars |-> bars,
     start_time |-> IF bars = << >> THEN NoneTime ELSE bars[1],
     end_time |-> IF bars = << >> THEN NoneTime
                  ELSE CloseTime(bars[Len(bars)], itv)]

NoSeries == MkSeries("", "12h", << >>)

(***************************************************************************)
(*        get_date_range_chunks and BinanceDataFetcher.fetch_klines        *)
(***************************************************************************)

\* Largest timestamp of a fetch, in ticks.
MaxFkTime == 3
\* Largest default_limit (bars per chunk request).
MaxLimit == 2

FkTimes == 0..MaxFkTime
\* get_interval_ms of the intervals of the model, in ticks.
FkIntervals == {IntervalTicks(i) : i \in Intervals}

FkRequests ==
    [start : FkTimes, end : FkTimes, interval_ms : FkIntervals,
     limit : 1..MaxLimit]
NoFkRequest == [start |-> 0, end |-> 0, interval_ms |-> 1, limit |-> 1]

\* A bar of a chunk response: its open_time, and the chunk request that
\* delivered it (standing for the rest of the bar's content).
Bar(t, k) == [open_time |-> t, chunk |-> k]

\* The texts of a numeric field of a response row, and float() on them:
\* "abc" makes float() raise ValueError.
FloatTexts == {"0.5", "abc"}
IsFloat(text) == text = "0.5"

\* A row of a chunk response: the array Binance sends for a bar, with its
\* open price as text.
Row(t, k, open) == [open_time |-> t, chunk |-> k, open |-> open]

\* KlineBar.from_binance_response(data), for a row whose fields all parse.
FromBinanceResponse(row) == Bar(row.open_time, row.chunk)

\* What the provider can answer to the k-th chunk request: at most limit
\* rows, in any order, with any open times (chunk edges overlap).
Replies(k, limit) ==
    UNION { [1..n -> {Row(t, k, o) : t \in FkTimes, o \in FloatTexts}] :
               n \in 0..limit }

\* A chunk as long as one interval, whatever the page size.
ChunkDurationOneBar(r) == r.interval_ms

\* chunk_duration = interval_ms * max_bars_per_chunk
ChunkDuration(r) == r.interval_ms * r.limit

\* A reassembly that returns all_bars as received.
NoDedupSort(all) == all

\* bars_dict = {bar.open_time: bar for bar in all_bars}: the last bar of each
\* open_time; sorted(bars_dict.values(), key=open_time).
DedupSort(all) ==
    LET keys == SortedSeq({all[i].open_time : i \in 1..Len(all)})
        lastOf(t) == all[CHOOSE i \in 1..Len(all) :
                           /\ all[i].open_time = t
                           /\ \A j \in 1..Len(all) :
                                 all[j].open_time = t => j <= i]
    IN [n \in 1..Len(keys) |-> lastOf(keys[n])]

FKInit ==
    /\ fkPc = "idle"
    /\ fkReq = NoFkRequest
    /\ fkCur = 0
    /\ fkChunks = << >>
    /\ fkIdx = 0
    /\ fkSent = 0
    /\ fkAll = << >>
    /\ fkOut = << >>
    /\ fkErr = ""

\* fetch_klines(symbol, interval, start_time, end_time) is called; the
\* generator get_date_range_chunks starts with current_start = start_time.
FKCall(r) ==
    /\ fkPc = "idle"
    /\ fkPc' = "chunking"
    /\ fkReq' = r
    /\ fkCur' = r.start
    /\ fkChunks' = << >>
    /\ fkIdx' = 0
    /\ fkSent' = 0
    /\ fkAll' = << >>
    /\ fkOut' = << >>
    /\ fkErr' = ""
    /\ UNCHANGED notFK

\* One iteration of the while loop of get_date_range_chunks.
FKYield ==
    /\ fkPc = "chunking"
    /\ fkCur < fkReq.end
    /\ LET chunk_end == Min(fkCur + ChunkDuration(fkReq), fkReq.end)
       IN /\ fkChunks' = Append(fkChunks, <<fkCur, chunk_end>>)
          /\ fkCur' = chunk_end
    /\ UNCHANGED <<fkPc, fkReq, fkIdx, fkSent, fkAll, fkOut, fkErr, notFK>>

\* The generator is exhausted; fetch_klines has its list of chunks.
FKChunksDone ==
    /\ fkPc = "chunking"
    /\ fkCur >= fkReq.end
    /\ fkPc' = "loop"
    /\ UNCHANGED <<fkReq, fkCur, fkChunks, fkIdx, fkSent, fkAll, fkOut, fkErr, notFK>>

\* The for loop awaits fetch_klines_chunk for the next chunk.
FKSend ==
    /\ fkPc = "loop"
    /\ fkIdx < Len(fkChunks)
    /\ fkSent' = fkSent + 1
    /\ fkPc' = "await"
    /\ UNCHANGED <<fkReq, fkCur, fkChunks, fkIdx, fkAll, fkOut, fkErr, notFK>>

\* fetch_klines_chunk returns [KlineBar.from_binance_response(bar) for bar in
\* data] and fetch_klines does all_bars.extend(bars).
FKReceive(rows) ==
    /\ fkPc = "await"
    /\ \A i \in 1..Len(rows) : IsFloat(rows[i].open)
    /\ fkAll' = fkAll \o [i \in 1..Len(rows) |-> FromBinanceResponse(rows[i])]
    /\ fkIdx' = fkIdx + 1
    /\ fkPc' = "loop"
    /\ UNCHANGED <<fkReq, fkCur, fkChunks, fkSent, fkOut, fkErr, notFK>>

\* A row of the response has a numeric field that float() cannot parse:
\* from_binance_response raises ValueError inside the list comprehension, and
\* neither fetch_klines_chunk nor fetch_klines catches it.
FKMalformedRow(rows) ==
    /\ fkPc = "await"
    /\ \E i \in 1..Len(rows) : ~IsFloat(rows[i].open)
    /\ fkPc' = "failed"
    /\ fkErr' = "ValueError"
    /\ UNCHANGED <<fkReq, fkCur, fkChunks, fkIdx, fkSent, fkAll, fkOut, notFK>>

\* The chunk request raises (BinanceAPIError, ClientError, RuntimeError):
\* the exception leaves fetch_klines.
FKFail ==
    /\ fkPc = "await"
    /\ fkPc' = "failed"
    /\ fkErr' \in {"BinanceAPIError", "ClientError", "RuntimeError"}
    /\ UNCHANGED <<fkReq, fkCur, fkChunks, fkIdx, fkSent, fkAll, fkOut, notFK>>

\* The task is cancelled while it awaits the chunk: CancelledError is raised
\* at the await and no handler of the fetcher catches it.
FKCancel ==
    /\ fkPc = "await"
    /\ fkPc' = "cancelled"
    /\ fkErr' = "CancelledError"
    /\ UNCHANGED <<fkReq, fkCur, fkChunks, fkIdx, fkSent, fkAll, fkOut, notFK>>

\* After the loop: remove duplicates, sort, return the KlineData.
FKAssemble ==
    /\ fkPc = "loop"
    /\ fkIdx = Len(fkChunks)
    /\ fkOut' = DedupSort(fkAll)
    /\ fkPc' = "done"
    /\ UNCHANGED <<fkReq, fkCur, fkChunks, fkIdx, fkSent, fkAll, fkErr, notFK>>

FKNext ==
    \/ \E r \in FkRequests : FKCall(r)
    \/ FKYield
    \/ FKChunksDone
    \/ FKSend
    \/ \E rows \in Replies(fkSent, fkReq.limit) : FKReceive(rows)
    \/ \E rows \in Replies(fkSent, fkReq.limit) : FKMalformedRow(rows)
    \/ FKFail
    \/ FKCancel
    \/ FKAssemble

(***************************************************************************)
(*                             LeanRunner                                  *)
(***************************************************************************)

\* Largest timeout_seconds of a configuration, in ticks.
MaxTimeout == 3

\* The output directory after the engine ran: no JSON file, a results file
\* that parses, or one that is empty or not JSON.
Artifacts == {"none", "valid", "corrupt"}

NoLrOutcome ==
    [kind |-> "none", success |-> FALSE, results_file |-> "none",
     message |-> << >>]

\* LeanBacktestResult(success=False, ..., error_message=msg)
Failure(msg) ==
    [kind |-> "result", success |-> FALSE, results_file |-> "none",
     message |-> msg]

\* An exception leaving the call.
Raise(name) ==
    [kind |-> "raise", success |-> FALSE, results_file |-> "none",
     message |-> <<name>>]

\* LeanRunner._parse_results: success=True whatever the output directory
\* holds; results_file is the first JSON file found, if any.
RunnerParseResults(art) ==
    [kind |-> "result", success |-> TRUE, results_file |-> art,
     message |-> << >>]

LRInit ==
    /\ lrPc = "idle"
    /\ lrTimeout = 1
    /\ lrElapsed = 0
    /\ lrDocker = "unknown"
    /\ lrTemp = "none"
    /\ lrCopied = FALSE
    /\ lrProc = "none"
    /\ lrPending = NoLrOutcome
    /\ lrOutcome = NoLrOutcome
    /\ lrDeadline = FALSE
    /\ lrCancelled = FALSE
    /\ lrPermErr = FALSE
    /\ lrCode = 0
    /\ lrErr = ""

\* run_backtest(backtest_config) is called.
LRCall(t) ==
    /\ lrPc = "idle"
    /\ lrPc' = "check"
    /\ lrTimeout' = t
    /\ UNCHANGED <<lrElapsed, lrDocker, lrTemp, lrCopied, lrProc, lrPending,
                   lrOutcome, lrDeadline, lrCancelled, lrPermErr, lrCode, lrErr, notLR>>

\* A runner that notes the result of the Docker check and goes on anyway.
LRCheckDockerIgnored(up) ==
    /\ lrPc = "check"
    /\ lrDocker' = IF up THEN "up" ELSE "down"
    /\ lrPc' = "mkdtemp"
    /\ UNCHANGED <<lrTimeout, lrElapsed, lrTemp, lrCopied, lrProc, lrPending,
                   lrOutcome, lrDeadline, lrCancelled, lrPermErr, lrCode, lrErr, notLR>>

\* if not self._check_docker(): raise RuntimeError(...)
LRCheckDocker(up) ==
    /\ lrPc = "check"
    /\ lrDocker' = IF up THEN "up" ELSE "down"
    /\ IF up
       THEN /\ lrPc' = "mkdtemp"
            /\ UNCHANGED lrOutcome
       ELSE /\ lrPc' = "done"
            /\ lrOutcome' = Raise("RuntimeError: Docker is not available")
    /\ UNCHANGED <<lrTimeout, lrElapsed, lrTemp, lrCopied, lrProc, lrPending,
                   lrDeadline, lrCancelled, lrPermErr, lrCode, lrErr, notLR>>

\* temp_dir = tempfile.mkdtemp(), before the try block.
LRMkdtemp(ok) ==
    /\ lrPc = "mkdtemp"
    /\ IF ok
       THEN /\ lrTemp' = "exists"
            /\ lrPc' = "copy"
            /\ UNCHANGED lrOutcome
       ELSE /\ lrPc' = "done"
            /\ lrOutcome' = Raise("OSError")
            /\ UNCHANGED lrTemp
    /\ UNCHANGED <<lrTimeout, lrElapsed, lrDocker, lrCopied, lrProc, lrPending,
                   lrDeadline, lrCancelled, lrPermErr, lrCode, lrErr, notLR>>

\* A copy step outside the try block: its failure skips "finally".
LRCopyOutsideTry(ok) ==
    /\ lrPc = "copy"
    /\ IF ok
       THEN /\ lrCopied' = TRUE
            /\ lrPc' = "launch"
            /\ UNCHANGED <<lrPending, lrOutcome>>
       ELSE /\ lrPending' = Raise("FileNotFoundError")
            /\ lrOutcome' = Raise("FileNotFoundError")
            /\ lrPc' = "done"
            /\ UNCHANGED lrCopied
    /\ UNCHANGED <<lrTimeout, lrElapsed, lrDocker, lrTemp, lrProc,
                   lrDeadline, lrCancelled, lrPermErr, lrCode, lrErr, notLR>>

\* shutil.copy(strategy_file, strategy_dest), in the outer try only: a
\* failure leaves the function as an exception, through "finally".
LRCopy(ok) ==
    /\ lrPc = "copy"
    /\ IF ok
       THEN /\ lrCopied' = TRUE
            /\ lrPc' = "launch"
            /\ UNCHANGED lrPending
       ELSE /\ lrPending' = Raise("FileNotFoundError")
            /\ lrPc' = "cleanup"
            /\ UNCHANGED lrCopied
    /\ UNCHANGED <<lrTimeout, lrElapsed, lrDocker, lrTemp, lrProc, lrOutcome,
                   lrDeadline, lrCancelled, lrPermErr, lrCode, lrErr, notLR>>

\* asyncio.create_subprocess_exec(*docker_cmd, ...); a failure to launch is
\* caught by "except Exception" and becomes a failed result.
LRLaunch(ok) ==
    /\ lrPc = "launch"
    /\ IF ok
       THEN /\ lrProc' = "running"
            /\ lrElapsed' = 0
            /\ lrPc' = "wait"
            /\ UNCHANGED lrPending
       ELSE /\ lrPending' = Failure(<<"str(e)">>)
            /\ lrPc' = "cleanup"
            /\ UNCHANGED <<lrProc, lrElapsed>>
    /\ UNCHANGED <<lrTimeout, lrDocker, lrTemp, lrCopied, lrOutcome,
                   lrDeadline, lrCancelled, lrPermErr, lrCode, lrErr, notLR>>

\* A second passes while wait_for(process.communicate(), timeout) waits.
LRTick ==
    /\ lrPc = "wait"
    /\ lrElapsed < lrTimeout
    /\ lrElapsed' = lrElapsed + 1
    /\ UNCHANGED <<lrPc, lrTimeout, lrDocker, lrTemp, lrCopied, lrProc,
                   lrPending, lrOutcome, lrDeadline, lrCancelled, lrPermErr,
                   lrCode, lrErr, notLR>>

\* What the engine can write to stderr: nothing, or some text.
Stderrs == {"", "Algorithm error"}

\* An exit handler that looks at the results directory whatever the code.
LRExitIgnoresCode(code, art, err) ==
    /\ lrPc = "wait"
    /\ lrElapsed < lrTimeout
    /\ lrProc' = "exited"
    /\ lrCode' = code
    /\ lrErr' = err
    /\ lrPending' = RunnerParseResults(art)
    /\ lrPc' = "cleanup"
    /\ UNCHANGED <<lrTimeout, lrElapsed, lrDocker, lrTemp, lrCopied, lrOutcome,
                   lrDeadline, lrCancelled, lrPermErr, notLR>>

\* The process exits before the deadline: a non-zero return code gives a
\* failed result with error_msg = stderr.decode() if stderr else "Unknown
\* error"; return code 0 goes to _parse_results.
LRExit(code, art, err) ==
    /\ lrPc = "wait"
    /\ lrElapsed < lrTimeout
    /\ lrProc' = "exited"
    /\ lrCode' = code
    /\ lrErr' = err
    /\ lrPending' = IF code # 0
                    THEN Failure(<<IF err = "" THEN "Unknown error" ELSE err>>)
                    ELSE RunnerParseResults(art)
    /\ lrPc' = "cleanup"
    /\ UNCHANGED <<lrTimeout, lrElapsed, lrDocker, lrTemp, lrCopied, lrOutcome,
                   lrDeadline, lrCancelled, lrPermErr, notLR>>

\* A timeout handler that returns the failed result without the kill.
LRTimeoutNoKill ==
    /\ lrPc = "wait"
    /\ lrElapsed = lrTimeout
    /\ lrDeadline' = TRUE
    /\ lrPending' = Failure(<<"Backtest timed out after", lrTimeout>>)
    /\ lrPc' = "cleanup"
    /\ UNCHANGED <<lrTimeout, lrElapsed, lrDocker, lrTemp, lrCopied, lrProc,
                   lrOutcome, lrCancelled, lrPermErr, lrCode, lrErr, notLR>>

\* timeout_seconds have elapsed: asyncio.TimeoutError, process.kill(), and
\* the failed result "Backtest timed out after {timeout_seconds}s".
LRTimeout ==
    /\ lrPc = "wait"
    /\ lrElapsed = lrTimeout
    /\ lrDeadline' = TRUE
    /\ lrProc' = "killed"
    /\ lrPending' = Failure(<<"Backtest timed out after", lrTimeout>>)
    /\ lrPc' = "cleanup"
    /\ UNCHANGED <<lrTimeout, lrElapsed, lrDocker, lrTemp, lrCopied, lrOutcome,
                   lrCancelled, lrPermErr, lrCode, lrErr, notLR>>

\* The task is cancelled where run_backtest_docker is suspended, in
\* create_subprocess_exec or in the wait: CancelledError is neither an
\* asyncio.TimeoutError nor an Exception, so only "finally" runs and the
\* runner kills nothing.  create_subprocess_exec suspends after it has
\* started the child; cancelled there, the event loop may kill the child
\* itself (killed: CPython's subprocess transport does) or leave it running.
LRCancel(killed) ==
    /\ lrPc \in {"launch", "wait"}
    /\ killed => lrPc = "launch"
    /\ lrCancelled' = TRUE
    /\ lrProc' = IF lrPc = "wait" THEN lrProc
                 ELSE IF killed THEN "killed"
                 ELSE "running"
    /\ lrPending' = Raise("CancelledError")
    /\ lrPc' = "cleanup"
    /\ UNCHANGED <<lrTimeout, lrElapsed, lrDocker, lrTemp, lrCopied,
                   lrOutcome, lrDeadline, lrPermErr, lrCode, lrErr, notLR>>

\* finally: shutil.rmtree(temp_dir, ignore_errors=True); then the pending
\* result is returned or the pending exception goes on.
LRCleanup(denied) ==
    /\ lrPc = "cleanup"
    /\ lrPermErr' = denied
    /\ lrTemp' = IF denied THEN "left" ELSE "removed"
    /\ lrOutcome' = lrPending
    /\ lrPc' = "done"
    /\ UNCHANGED <<lrTimeout, lrElapsed, lrDocker, lrCopied, lrProc, lrPending,
                   lrDeadline, lrCancelled, lrCode, lrErr, notLR>>

LRNext ==
    \/ \E t \in 1..MaxTimeout : LRCall(t)
    \/ \E up \in BOOLEAN : LRCheckDocker(up)
    \/ \E ok \in BOOLEAN : LRMkdtemp(ok)
    \/ \E ok \in BOOLEAN : LRCopy(ok)
    \/ \E ok \in BOOLEAN : LRLaunch(ok)
    \/ LRTick
    \/ \E code \in {0, 1}, art \in Artifacts, err \in Stderrs :
          LRExit(code, art, err)
    \/ LRTimeout
    \/ \E killed \in BOOLEAN : LRCancel(killed)
    \/ \E denied \in BOOLEAN : LRCleanup(denied)

(***************************************************************************)
(*                          LeanDataConverter                              *)
(***************************************************************************)

\* INTERVAL_MINUTES of the minute-tier interval of the model.
Minute30Minutes == 30
ConvIntervals == Intervals \cup {"30m"}
ConvMinutes(i) == IF i = "30m" THEN Minute30Minutes ELSE IntervalMinutes(i)

\* The last open time of a series given to the converter, in ticks.
MaxConvTick == 4
ConvTimes == 0..MaxConvTick

\* The series convert can be given (the fields of KlineData it reads): bars,
\* known by their open times, in ascending order.
ConvInputs ==
    { [symbol |-> sym, interval |-> itv, bars |-> SortedSeq(S)] :
         sym \in Symbols, itv \in ConvIntervals, S \in SUBSET ConvTimes }
NoConvInput == [symbol |-> "", interval |-> "30m", bars |-> << >>]

\* _get_lean_resolution
LeanResolution(itv) ==
    IF ConvMinutes(itv) < 60 THEN "minute"
    ELSE IF ConvMinutes(itv) < 1440 THEN "hour"
    ELSE "daily"

\* _get_lean_symbol: symbol.lower() on the symbols of the model.
Lower(sym) == IF sym = "BTCUSDT" THEN "btcusdt" ELSE sym

\* _get_output_path, below output_dir/crypto/binance.
OutputPath(sym, resolution, use_symbol_folder) ==
    IF use_symbol_folder THEN <<resolution, Lower(sym)>> ELSE <<resolution>>

\* _format_lean_time: "YYYYMMDD HH:mm" for hour and daily data, the time
\* since midnight UTC for minute data.
FormatLeanTime(t, resolution) ==
    IF resolution \in {"hour", "daily"}
    THEN <<Day(t), t % DayTicks>>
    ELSE <<t % DayTicks>>

\* A grouping that puts every bar under the date of the first bar.
GroupBarsUnderFirstDate(bars) ==
    IF bars = << >> THEN << >> ELSE (Day(bars[1]) :> bars)

\* _group_bars_by_date: date -> the bars of that date, in the given order.
GroupBarsByDate(bars) ==
    [d \in {Day(bars[i]) : i \in 1..Len(bars)} |->
        SelectSeq(bars, LAMBDA t : Day(t) = d)]

\* _create_csv_content: one line per bar, sorted by open_time.
CsvContent(bars, resolution) ==
    LET sorted == SortedSeq({bars[i] : i \in 1..Len(bars)})
    IN [n \in 1..Len(sorted) |-> FormatLeanTime(sorted[n], resolution)]

\* _create_zip_file: the zip written at output_path/{base}_{type}.zip.
ZipFile(content, output_path, filename_base, data_type) ==
    [dir |-> output_path, name |-> <<filename_base, data_type>>,
     rows |-> content]

\* convert(data): the files written, for a series with at least one bar.
Convert(data) ==
    LET resolution == LeanResolution(data.interval)
    IN IF resolution \in {"hour", "daily"}
       THEN { ZipFile(CsvContent(data.bars, resolution),
                      OutputPath(data.symbol, resolution, FALSE),
                      Lower(data.symbol), dtype) : dtype \in {"trade", "quote"} }
       ELSE LET grouped == GroupBarsByDate(data.bars)
            IN { ZipFile(CsvContent(grouped[d], resolution),
                         OutputPath(data.symbol, resolution, TRUE),
                         d, "trade") : d \in DOMAIN grouped }

\* The calls of convert followed: the first, and a second one on what the
\* first and the clean-ups left in the directory.
ConvCalls == {1, 2}

\* The arguments of clean_converted_data; "" is None, or the empty string,
\* both of which mean no filter.
NoFilter == ""
CleanSymbols == {NoFilter, "BTCUSDT", "btcusdt", "ETHUSDT"}
CleanResolutions == {NoFilter, "minute", "hour", "daily"}

CVInit ==
    /\ cvPc = "idle"
    /\ cvIn = NoConvInput
    /\ cvFiles = {}
    /\ cvCreated = {}
    /\ cvCalls = 0
    /\ cvDeleted = 0

\* convert(data) is called, on whatever the directory holds.
CVCall(data) ==
    /\ cvPc \in {"idle", "done"}
    /\ cvCalls + 1 \in ConvCalls
    /\ cvPc' = "converting"
    /\ cvIn' = data
    /\ cvCalls' = cvCalls + 1
    /\ UNCHANGED <<cvFiles, cvCreated, cvDeleted, notCV>>

\* The body of convert: nothing for a series without bars, else the files,
\* each written over the file of the same path, if there is one.
CVConvert ==
    /\ cvPc = "converting"
    /\ cvCreated' = IF cvIn.bars = << >> THEN {} ELSE Convert(cvIn)
    /\ cvFiles' = {f \in cvFiles :
                     \A g \in cvCreated' : g.dir # f.dir \/ g.name # f.name}
                  \cup cvCreated'
    /\ cvPc' = "done"
    /\ UNCHANGED <<cvIn, cvCalls, cvDeleted, notCV>>

\* clean_converted_data(symbol, resolution): unlinks the zips of every symbol
\* directory of every resolution directory that passes the filters; a zip
\* that lies directly in a resolution directory is not in a symbol directory.
CVClean(symbol, resolution) ==
    /\ cvPc \in {"idle", "done"}
    /\ LET deleted == {f \in cvFiles :
                         /\ Len(f.dir) = 2
                         /\ resolution = NoFilter \/ f.dir[1] = resolution
                         /\ symbol = NoFilter \/ Upper(f.dir[2]) = Upper(symbol)}
       IN /\ cvFiles' = cvFiles \ deleted
          /\ cvDeleted' = Cardinality(deleted)
    /\ cvPc' = "idle"
    /\ UNCHANGED <<cvIn, cvCreated, cvCalls, notCV>>

CVNext ==
    \/ /\ cvPc \in {"idle", "done"}
       /\ cvCalls + 1 \in ConvCalls
       /\ \E data \in ConvInputs : CVCall(data)
    \/ CVConvert
    \/ \E symbol \in CleanSymbols, resolution \in CleanResolutions :
          CVClean(symbol, resolution)

(***************************************************************************)
(*                           ResultsParser                                 *)
(***************************************************************************)

\* Lean's codes in an order record: status 3 is Filled, direction 0 is Buy
\* and 1 is Sell.
StatusFilled == 3
DirectionBuy == 0
DirectionSell == 1

\* The most orders in a result of the model.
MaxOrders == 5

\* The order records of a result: a filled or a merely submitted order, to
\* buy or to sell.
OrderRecords == [status : {1, StatusFilled}, direction : {DirectionBuy, DirectionSell}]

RECURSIVE SeqsUpTo(_, _)
SeqsUpTo(S, n) ==
    IF n = 0 THEN {<< >>}
    ELSE LET shorter == SeqsUpTo(S, n - 1)
         IN shorter \cup {Append(q, x) : q \in {p \in shorter : Len(p) = n - 1}, x \in S}

\* The texts of the "Total Trades" statistic ("" when it is missing).
TotalTradesTexts == {"", "4", "n/a"}

\* The values of tradeStatistics.totalNumberOfTrades (0 when it is missing).
TradeStatsCounts == {0, 1, 4}

\* The results parse_dict is given: the values of data["orders"], of
\* statistics["Total Trades"] and of tradeStatistics["totalNumberOfTrades"].
ParserInputs ==
    [orders : SeqsUpTo(OrderRecords, MaxOrders),
     totalTrades : TotalTradesTexts,
     totalNumberOfTrades : TradeStatsCounts]
NoParserInput == [orders |-> << >>, totalTrades |-> "", totalNumberOfTrades |-> 0]

\* _parse_int on the texts of the model: 0 for an empty or unparsable text.
ParseInt(value) ==
    CASE value = "" -> 0
      [] value = "4" -> 4
      [] OTHER -> 0

\* _parse_metrics: total_trades from the "Total Trades" statistic.
ParseMetrics(data) == ParseInt(data.totalTrades)

\* A parse_dict that keeps the count of _parse_metrics.
ParseDictKeepsStatistic(data) == ParseMetrics(data)

\* parse_dict: metrics.total_trades of the report.
ParseDict(data) ==
    LET metrics == ParseMetrics(data)
        filled_orders == SelectSeq(data.orders, LAMBDA o : o.status = StatusFilled)
        buy_orders == Len(SelectSeq(filled_orders, LAMBDA o : o.direction = DirectionBuy))
        sell_orders == Len(SelectSeq(filled_orders, LAMBDA o : o.direction = DirectionSell))
    IN IF data.orders # << >> THEN Min(buy_orders, sell_orders)
       ELSE IF data.totalNumberOfTrades # 0 THEN data.totalNumberOfTrades
       ELSE metrics

PRInit ==
    /\ prPc = "idle"
    /\ prIn = NoParserInput
    /\ prTotal = 0
    /\ prWarnings = << >>

\* parse_dict(data) is called.
PRCall(data) ==
    /\ prPc = "idle"
    /\ prPc' = "parsing"
    /\ prIn' = data
    /\ UNCHANGED <<prTotal, prWarnings, notPR>>

\* BacktestReport(...) as parse_dict builds it (l.124-135): warnings is not
\* passed, so it is the default of the field, an empty list; nothing in the
\* parser appends to it.
ReportWarnings(data) == << >>

\* parse_dict returns its report.
PRParse ==
    /\ prPc = "parsing"
    /\ prTotal' = ParseDict(prIn)
    /\ prWarnings' = ReportWarnings(prIn)
    /\ prPc' = "done"
    /\ UNCHANGED <<prIn, notPR>>

PRNext ==
    \/ /\ prPc = "idle"
       /\ \E data \in ParserInputs : PRCall(data)
    \/ PRParse

(***************************************************************************)
(*      The limiters of concurrent runs (BacktestingAgent._fetch_data)     *)
(***************************************************************************)

\* Orchestrator runs in the process, chunk requests of one fetch, and the
\* sizes of the two buckets of a WeightedRateLimiter (rate_limit_requests and
\* rate_limit_weight of the configuration).
NumRuns == 2
MaxChunkRequests == 2
BurstRequests == 2
BurstWeight == 4
Runs == 1..NumRuns

\* get_weight_for_limit for the page sizes 99 and 499.
Weights == {1, 2}

\* WeightedRateLimiter(max_requests, max_weight): two full buckets.
NewLimiter == [requests |-> BurstRequests, weight |-> BurstWeight]

\* No acquire is under way.
NoTasks == [requests |-> "none", weight |-> "none"]

\* The event loop is between the first steps of the two tasks of one gather:
\* the tasks were queued back to back, so the second runs next.
MidGather ==
    shReady # << >> /\ shTasks[Head(shReady)].requests # "ready"

SHInit ==
    /\ shPc = [r \in Runs |-> "idle"]
    /\ shLimiterOf = [r \in Runs |-> 0]
    /\ shLimiters = << >>
    /\ shSent = [r \in Runs |-> 0]
    /\ shGranted = 0
    /\ shWeight = 0
    /\ shTasks = [r \in Runs |-> NoTasks]
    /\ shWant = [r \in Runs |-> 0]
    /\ shReady = << >>

\* _fetch_data of run r misses the cache and enters "async with
\* BinanceDataFetcher() as fetcher": the constructor is given no rate_limiter
\* and builds a new WeightedRateLimiter.
SHFetch(r) ==
    /\ ~MidGather
    /\ shPc[r] = "idle"
    /\ shLimiters' = Append(shLimiters, NewLimiter)
    /\ shLimiterOf' = [shLimiterOf EXCEPT ![r] = Len(shLimiters) + 1]
    /\ shPc' = [shPc EXCEPT ![r] = "fetching"]
    /\ UNCHANGED <<shSent, shGranted, shWeight, shTasks, shWant, shReady, notSH>>

\* _make_request of run r reaches "await self.rate_limiter.acquire(weight)":
\* WeightedRateLimiter.acquire gathers request_limiter.acquire(1) and
\* weight_limiter.acquire(weight), two tasks queued on the event loop.
SHAcquire(r, w) ==
    /\ ~MidGather
    /\ shPc[r] = "fetching"
    /\ shSent[r] < MaxChunkRequests
    /\ shPc' = [shPc EXCEPT ![r] = "acquiring"]
    /\ shTasks' = [shTasks EXCEPT ![r] = [requests |-> "ready", weight |-> "ready"]]
    /\ shWant' = [shWant EXCEPT ![r] = w]
    /\ shReady' = Append(shReady, r)
    /\ UNCHANGED <<shLimiterOf, shLimiters, shSent, shGranted, shWeight, notSH>>

\* The first step of request_limiter.acquire(1): with a token in the bucket
\* it debits one and returns, else it sleeps.  All requests of the model are
\* made within one instant, so no bucket is refilled and no sleep ends.
SHAcquireRequest(r) ==
    /\ shReady # << >>
    /\ Head(shReady) = r
    /\ shTasks[r].requests = "ready"
    /\ LET l == shLimiterOf[r]
       IN IF shLimiters[l].requests >= 1
          THEN /\ shLimiters' = [shLimiters EXCEPT ![l].requests = @ - 1]
               /\ shTasks' = [shTasks EXCEPT ![r].requests = "done"]
          ELSE /\ shTasks' = [shTasks EXCEPT ![r].requests = "sleeping"]
               /\ UNCHANGED shLimiters
    /\ UNCHANGED <<shPc, shLimiterOf, shSent, shGranted, shWeight, shWant,
                   shReady, notSH>>

\* The first step of weight_limiter.acquire(weight), the task gather created
\* second: it runs right after the first step of the other task.
SHAcquireWeight(r) ==
    /\ shReady # << >>
    /\ Head(shReady) = r
    /\ shTasks[r].requests # "ready"
    /\ LET l == shLimiterOf[r]
       IN IF shLimiters[l].weight >= shWant[r]
          THEN /\ shLimiters' = [shLimiters EXCEPT ![l].weight = @ - shWant[r]]
               /\ shTasks' = [shTasks EXCEPT ![r].weight = "done"]
          ELSE /\ shTasks' = [shTasks EXCEPT ![r].weight = "sleeping"]
               /\ UNCHANGED shLimiters
    /\ shReady' = Tail(shReady)
    /\ UNCHANGED <<shPc, shLimiterOf, shSent, shGranted, shWeight, shWant, notSH>>

\* Both tasks have returned: acquire returns and _make_request sends the
\* request (self.session.get).
SHSend(r) ==
    /\ ~MidGather
    /\ shPc[r] = "acquiring"
    /\ shTasks[r] = [requests |-> "done", weight |-> "done"]
    /\ shPc' = [shPc EXCEPT ![r] = "fetching"]
    /\ shTasks' = [shTasks EXCEPT ![r] = NoTasks]
    /\ shSent' = [shSent EXCEPT ![r] = @ + 1]
    /\ shGranted' = shGranted + 1
    /\ shWeight' = shWeight + shWant[r]
    /\ UNCHANGED <<shLimiterOf, shLimiters, shWant, shReady, notSH>>

\* fetch_klines of run r returns and the fetcher is closed.
SHClose(r) ==
    /\ ~MidGather
    /\ shPc[r] = "fetching"
    /\ shPc' = [shPc EXCEPT ![r] = "done"]
    /\ UNCHANGED <<shLimiterOf, shLimiters, shSent, shGranted, shWeight,
                   shTasks, shWant, shReady, notSH>>

SHNext ==
    \/ \E r \in Runs : SHFetch(r)
    \/ \E r \in Runs, w \in Weights : SHAcquire(r, w)
    \/ \E r \in Runs : SHAcquireRequest(r)
    \/ \E r \in Runs : SHAcquireWeight(r)
    \/ \E r \in Runs : SHSend(r)
    \/ \E r \in Runs : SHClose(r)

(***************************************************************************)
(*                 RateLimiter.acquire, with unbounded time                *)
(***************************************************************************)

\* max_requests of the bucket, the largest tokens argument of a call, and the
\* callers.  window_seconds is float(max_requests): refill_rate is 1.0 token
\* a second, a tick is one second, and token counts, elapsed times and
\* sleeps (min(needed / 1.0, 1.0) = 1.0 s) are whole numbers, which the
\* doubles of the code hold exactly.
AcqMaxRequests == 2
AcqMaxTokens == 3
AcqCallers == 1..2

\* _refill: tokens = min(max_requests, tokens + elapsed * refill_rate).
AcqRefill(have, elapsed) == Min(AcqMaxRequests, have + elapsed)

\* The lock is released: asyncio.Lock wakes its first waiter.
AcqRelease(pc, queue) ==
    IF queue = << >> THEN pc ELSE [pc EXCEPT ![Head(queue)] = "running"]

ALInit ==
    /\ alPc = [c \in AcqCallers |-> "idle"]
    /\ alAsk = [c \in AcqCallers |-> 0]
    /\ alTokens = AcqMaxRequests
    /\ alElapsed = 0
    /\ alQueue = << >>

\* acquire(tokens): "async with self._lock" takes the lock when it is free
\* and queues behind the holder otherwise.
ALCall(c, n) ==
    /\ alPc[c] = "idle"
    /\ alAsk' = [alAsk EXCEPT ![c] = n]
    /\ IF \E d \in AcqCallers : alPc[d] \in {"running", "sleeping"}
       THEN /\ alPc' = [alPc EXCEPT ![c] = "queued"]
            /\ alQueue' = Append(alQueue, c)
       ELSE /\ alPc' = [alPc EXCEPT ![c] = "running"]
            /\ alQueue' = alQueue
    /\ UNCHANGED <<alTokens, alElapsed, notAL>>

\* One iteration of "while True": refill, then either debit and return
\* (releasing the lock) or sleep with the lock held.
ALLoop(c) ==
    /\ alPc[c] = "running"
    /\ alElapsed' = 0
    /\ LET refilled == AcqRefill(alTokens, alElapsed)
       IN IF refilled >= alAsk[c]
          THEN /\ alTokens' = refilled - alAsk[c]
               /\ alPc' = AcqRelease([alPc EXCEPT ![c] = "idle"], alQueue)
               /\ alQueue' = IF alQueue = << >> THEN alQueue ELSE Tail(alQueue)
          ELSE /\ alTokens' = refilled
               /\ alPc' = [alPc EXCEPT ![c] = "sleeping"]
               /\ alQueue' = alQueue
    /\ UNCHANGED <<alAsk, notAL>>

\* Time advances by one tick: a sleeping holder wakes up.  Elapsed time
\* beyond a full window refills nothing more.
ALTick ==
    /\ alElapsed' = Min(alElapsed + 1, AcqMaxRequests)
    /\ alPc' = [c \in AcqCallers |->
                  IF alPc[c] = "sleeping" THEN "running" ELSE alPc[c]]
    /\ UNCHANGED <<alAsk, alTokens, alQueue, notAL>>

ALNext ==
    \/ \E c \in AcqCallers, n \in 1..AcqMaxTokens : ALCall(c, n)
    \/ \E c \in AcqCallers : ALLoop(c)
    \/ ALTick

(***************************************************************************)
(*                 The strategy graph of VibeTraderAgent                   *)
(***************************************************************************)

\* The retry count at which _route_from_compile asks the user.
MaxCompileRetries == 5
\* The most compile steps the model follows without a user message.
MaxCompileSteps == 7

\* An error message is known by the texts it contains that the agent looks
\* for ("syntax", "indentation", "no data" and "insufficient data" in any
\* case).
BacktestMessages ==
    { {"Invalid symbol", "code=-1121"}, {"Invalid symbol"}, {"code=-1121"},
      {"code=-1121", "syntax"}, {"Invalid symbol", "Invalid timeframe"},
      {"not a valid BinanceInterval"}, {"syntax"}, {"no data"}, {} }

\* valid_timeframes, and the timeframes the requirement analysis extracts.
ValidTimeframes ==
    {"1m", "3m", "5m", "15m", "30m", "1h", "2h", "4h", "6h", "8h", "12h",
     "1d", "3d", "1w", "1M"}
Timeframes == {"1h", "1H", "90m"}
LowerTimeframe(tf) == IF tf = "1H" THEN "1h" ELSE tf

\* _entry_node: a timeframe whose lower case is not valid becomes "1h".
NormalizeTimeframe(tf) ==
    IF LowerTimeframe(tf) \notin ValidTimeframes THEN "1h" ELSE tf

\* A categorisation that looks for a code error first.
CategorizeCodeFirst(msg) ==
    IF "syntax" \in msg \/ "indentation" \in msg THEN "code"
    ELSE IF "Invalid symbol" \in msg \/ "code=-1121" \in msg THEN "symbol"
    ELSE "unknown"

\* _compile_node: the error type of a failed backtest, from its message.
Categorize(msg) ==
    IF "Invalid symbol" \in msg \/ "code=-1121" \in msg THEN "symbol"
    ELSE IF "not a valid BinanceInterval" \in msg \/ "Invalid timeframe" \in msg
         THEN "code"
    ELSE IF "syntax" \in msg \/ "indentation" \in msg THEN "code"
    ELSE IF "no data" \in msg \/ "insufficient data" \in msg THEN "data"
    ELSE "unknown"

\* _route_from_entry
RouteFromEntry(clarification_required) ==
    IF clarification_required THEN "clarify" ELSE "design"

\* _route_from_compile, with the edge map of _build_graph
\* ("clarify_symbol" leads to the clarify node).
RouteFromCompile(compile_success, last_error_type, retry_count, compile_errors) ==
    IF compile_success THEN "respond"
    ELSE IF \E i \in 1..Len(compile_errors) :
               \/ "Invalid timeframe" \in compile_errors[i]
               \/ "not a valid BinanceInterval" \in compile_errors[i]
         THEN "clarify"
    ELSE IF last_error_type = "symbol" THEN "clarify"
    ELSE IF retry_count >= MaxCompileRetries THEN "clarify"
    ELSE "design"

\* The state of a graph invocation before any node has written to it.
SGFresh ==
    /\ sgRetry = 0
    /\ sgErrType = "unset"
    /\ sgErrors = << >>
    /\ sgSuccess = FALSE
    /\ sgCode = ""
    /\ sgTf = "1h"
    /\ sgBacktest = "none"
    /\ sgMsg = {}

SGInit ==
    /\ sgNode = "idle"
    /\ sgFrom = "idle"
    /\ sgCompiles = 0
    /\ sgAsked = FALSE
    /\ SGFresh

\* _consumer_loop takes a user message from the queue and invokes the graph,
\* which starts at the entry node with a state no node has written to.
SGInvoke ==
    /\ sgNode = "idle"
    /\ sgNode' = "entry"
    /\ sgFrom' = "idle"
    /\ sgCompiles' = 0
    /\ sgAsked' = FALSE
    /\ sgRetry' = 0
    /\ sgErrType' = "unset"
    /\ sgErrors' = << >>
    /\ sgSuccess' = FALSE
    /\ sgCode' = ""
    /\ sgTf' = "1h"
    /\ sgBacktest' = "none"
    /\ sgMsg' = {}
    /\ UNCHANGED notSG

\* confirmation_message of the analysis: absent or empty, or a question.
ConfirmationMessages == {"", "Use BTCUSDT on 1h?"}

\* A version of the entry node that keeps the counter and the errors when it
\* accepts the requirements.
SGEntryKeepsErrors(complete, needs_confirmation, confirmation_msg, tf) ==
    /\ sgNode = "entry"
    /\ LET clarification_required ==
            ~complete \/ (needs_confirmation /\ confirmation_msg # "")
       IN /\ sgTf' = IF clarification_required THEN sgTf ELSE NormalizeTimeframe(tf)
          /\ sgNode' = RouteFromEntry(clarification_required)
    /\ sgFrom' = "entry"
    /\ UNCHANGED <<sgRetry, sgErrType, sgErrors, sgCode, sgSuccess, sgBacktest,
                   sgMsg, sgCompiles, sgAsked, notSG>>

\* _entry_node and _route_from_entry: the analysis finds the requirements
\* incomplete, or complete but to be confirmed with a confirmation message
\* that is not empty (both go to clarify), or complete: then the spec is set
\* and the counter, the error type, the code and the errors are reset.
SGEntry(complete, needs_confirmation, confirmation_msg, tf) ==
    /\ sgNode = "entry"
    /\ LET clarification_required ==
            ~complete \/ (needs_confirmation /\ confirmation_msg # "")
       IN /\ IF clarification_required
             THEN UNCHANGED <<sgRetry, sgErrType, sgErrors, sgCode, sgTf>>
             ELSE /\ sgRetry' = 0
                  /\ sgErrType' = ""
                  /\ sgErrors' = << >>
                  /\ sgCode' = ""
                  /\ sgTf' = NormalizeTimeframe(tf)
          /\ sgNode' = RouteFromEntry(clarification_required)
    /\ sgFrom' = "entry"
    /\ UNCHANGED <<sgSuccess, sgBacktest, sgMsg, sgCompiles, sgAsked, notSG>>

\* _clarify_requirements_node: the question is sent, the node waits for the
\* next user message, and the graph goes back to entry.
SGClarify ==
    /\ sgNode = "clarify"
    /\ sgNode' = "entry"
    /\ sgFrom' = "clarify"
    /\ sgCompiles' = 0
    /\ sgAsked' = (sgFrom = "compile")
    /\ UNCHANGED <<sgRetry, sgErrType, sgErrors, sgSuccess, sgCode, sgTf,
                   sgBacktest, sgMsg, notSG>>

\* _design_strategy_node, then the edge to compile.  out is what the quant
\* agent gives: code, an empty text, or an exception (the fallback code is
\* used).
SGDesign(out) ==
    /\ sgNode = "design"
    /\ IF sgTf \notin ValidTimeframes
       THEN /\ sgSuccess' = FALSE
            /\ sgErrors' = << {"Invalid timeframe"} >>
            /\ sgRetry' = sgRetry + 1
            /\ sgErrType' = "code"
            /\ sgCode' = sgCode
       ELSE /\ sgCode' = IF out = "raise" THEN "code" ELSE out
            /\ sgErrors' = IF out = "raise" THEN << {} >>
                           ELSE IF sgErrors # << >> THEN << >>
                           ELSE sgErrors
            /\ UNCHANGED <<sgSuccess, sgRetry, sgErrType>>
    /\ sgNode' = "compile"
    /\ sgFrom' = "design"
    /\ UNCHANGED <<sgTf, sgBacktest, sgMsg, sgCompiles, sgAsked, notSG>>

\* _compile_node, then _route_from_compile.  outcome is what the backtest
\* does when it is run: it succeeds, it fails with a message, or an
\* exception with a message is raised.
SGCompile(outcome, msg) ==
    /\ sgNode = "compile"
    /\ sgCompiles < MaxCompileSteps
    /\ IF sgCode = ""
       THEN /\ sgSuccess' = FALSE
            /\ sgErrors' = << {} >>
            /\ sgBacktest' = "none"
            /\ sgMsg' = {}
            /\ UNCHANGED <<sgRetry, sgErrType>>
       ELSE IF sgTf \notin ValidTimeframes
       THEN /\ sgSuccess' = FALSE
            /\ sgErrors' = << {"Invalid timeframe"} >>
            /\ sgRetry' = sgRetry + 1
            /\ sgErrType' = "code"
            /\ sgBacktest' = "none"
            /\ sgMsg' = {}
       ELSE /\ sgBacktest' = outcome
            /\ sgMsg' = IF outcome = "success" THEN {} ELSE msg
            /\ sgSuccess' = (outcome = "success")
            /\ sgErrors' = IF outcome = "success" THEN << >> ELSE << msg >>
            /\ sgRetry' = IF outcome = "success" THEN sgRetry ELSE sgRetry + 1
            /\ sgErrType' = CASE outcome = "success" -> sgErrType
                              [] outcome = "failed" -> Categorize(msg)
                              [] OTHER -> "unknown"
    /\ sgNode' = RouteFromCompile(sgSuccess', sgErrType', sgRetry', sgErrors')
    /\ sgFrom' = "compile"
    /\ sgCompiles' = sgCompiles + 1
    /\ UNCHANGED <<sgCode, sgTf, sgAsked, notSG>>

\* _respond_node, then END: the consumer loop waits for the next message.
SGRespond ==
    /\ sgNode = "respond"
    /\ sgNode' = "idle"
    /\ sgFrom' = "respond"
    /\ UNCHANGED <<sgRetry, sgErrType, sgErrors, sgSuccess, sgCode, sgTf,
                   sgBacktest, sgMsg, sgCompiles, sgAsked, notSG>>

\* The invocation ends without reaching END and its state is dropped: the
\* consumer loop holds no result.
SGDropped ==
    /\ sgNode' = "idle"
    /\ sgFrom' = "idle"
    /\ sgCompiles' = 0
    /\ sgAsked' = FALSE
    /\ sgRetry' = 0
    /\ sgErrType' = "unset"
    /\ sgErrors' = << >>
    /\ sgSuccess' = FALSE
    /\ sgCode' = ""
    /\ sgTf' = "1h"
    /\ sgBacktest' = "none"
    /\ sgMsg' = {}

\* VibeTraderAgent.stop() while a node of the graph is suspended (the clarify
\* node waiting for a message, another node for an agent, the backtest or
\* the callback): the consumer task is cancelled, CancelledError leaves
\* invoke and the loop.  After start() the next message starts a new
\* invocation.
SGStop ==
    /\ sgNode # "idle"
    /\ SGDropped
    /\ UNCHANGED notSG

\* send_callback raises where a node calls it unguarded, in the clarify node
\* (the question) and in the respond node (the results): invoke raises, the
\* consumer loop reports the error and goes on to the next message.
SGSendRaises ==
    /\ sgNode \in {"clarify", "respond"}
    /\ SGDropped
    /\ UNCHANGED notSG

SGNext ==
    \/ SGInvoke
    \/ SGStop
    \/ SGSendRaises
    \/ \E complete, needs_confirmation \in BOOLEAN,
          confirmation_msg \in ConfirmationMessages, tf \in Timeframes :
          SGEntry(complete, needs_confirmation, confirmation_msg, tf)
    \/ SGClarify
    \/ \E out \in {"code", "", "raise"} : SGDesign(out)
    \/ \E outcome \in {"success", "failed", "raised"}, msg \in BacktestMessages :
          SGCompile(outcome, msg)
    \/ SGRespond

(***************************************************************************)
(*          LeanDataConverter._format_lean_time in milliseconds            *)
(*                                                                         *)
(* Open times are milliseconds since the epoch.  The minute format is      *)
(* computed by the code in binary64 floating point:                        *)
(*     int((dt - midnight).total_seconds() * 1000)                         *)
(* where total_seconds() is microseconds / 10**6.  Both operations are     *)
(* correctly rounded, and the outcome is computed here exactly, on the     *)
(* remainders modulo 1000 of the 53-bit significand.                       *)
(***************************************************************************)
MsPerSecond == 1000
MsPerMinute == 60 * MsPerSecond
MsPerHour   == 60 * MsPerMinute
MsPerDay    == 24 * MsPerHour

\* floor(log2(n)) for n >= 1.
RECURSIVE FloorLog2(_)
FloorLog2(n) == IF n < 2 THEN 0 ELSE 1 + FloorLog2(n \div 2)

\* 2^k modulo m for any k >= 0.
RECURSIVE Pow2Mod(_, _)
Pow2Mod(k, m) == IF k = 0 THEN 1 % m ELSE (2 * Pow2Mod(k - 1, m)) % m

\* The least j >= 1 with ms * 2^j >= 1000, for 0 < ms < 1000.
RECURSIVE ShiftsToSecond(_)
ShiftsToSecond(ms) ==
    IF 2 * ms >= MsPerSecond THEN 1 ELSE 1 + ShiftsToSecond(2 * ms)

\* The binary exponent of ms / 1000 seconds: floor(log2(ms / 1000)).
SecondsExponent(ms) ==
    IF ms >= MsPerSecond THEN FloorLog2(ms \div MsPerSecond)
    ELSE 0 - ShiftsToSecond(ms)

\* A minute format in exact arithmetic: the offset itself.
ExactMsSinceMidnight(ms) == ms

\* int(total_seconds() * 1000) for an offset of ms milliseconds from midnight.
\* total_seconds() is the double nearest to ms / 1000; with k = 52 - exponent
\* its error is -rem / (1000 * 2^k) when rem = (ms * 2^k) mod 1000 is below
\* 500 (rounded down) and positive otherwise.  The product with 1000 is then
\* ms - rem / 2^k, which rounds to the double below ms, and int() truncates it
\* to ms - 1, exactly when rem / 2^k exceeds half the spacing of the doubles
\* below ms.  (rem = 500 cannot occur: 2^k is a multiple of 8.)
FloatMsSinceMidnight(ms) ==
    IF ms = 0 THEN 0
    ELSE LET ex   == SecondsExponent(ms)
             k    == 52 - ex
             rem  == ((ms % MsPerSecond) * Pow2Mod(k, MsPerSecond)) % MsPerSecond
             m    == FloorLog2(ms)
             half == IF Pow2(m) = ms THEN Pow2(m - ex - 2) ELSE Pow2(m - ex - 1)
         IN IF rem < 500 /\ rem > half THEN ms - 1 ELSE ms

\* l.125-129: midnight = dt.replace(hour=0, ...); the offset of dt from it.
MsSinceMidnight(timestamp_ms) == FloatMsSinceMidnight(timestamp_ms % MsPerDay)

\* dt.strftime("%Y%m%d %H:%M") in UTC: the date (as the day number since the
\* epoch), the hour and the minute of the timestamp.
DateHourMinute(timestamp_ms) ==
    [date   |-> timestamp_ms \div MsPerDay,
     hour   |-> (timestamp_ms % MsPerDay) \div MsPerHour,
     minute |-> (timestamp_ms % MsPerHour) \div MsPerMinute]

\* _format_lean_time on millisecond timestamps.
FormatLeanTimeMs(timestamp_ms, resolution) ==
    IF resolution \in {"hour", "daily"}
    THEN [kind |-> "text", ms |-> 0, at |-> DateHourMinute(timestamp_ms)]
    ELSE [kind |-> "int", ms |-> MsSinceMidnight(timestamp_ms),
          at |-> DateHourMinute(0)]

\* The open times of the bars handed to _create_csv_content: on and off whole
\* seconds and minutes, on two days.
OpenTimesMs ==
    {0, 1001, 1002, MsPerMinute, MsPerHour + MsPerMinute, MsPerDay + 1003,
     MsPerDay + 30 * MsPerMinute}

\* The most bars of one call.
MaxCsvBars == 2

\* Bars in any order, no two with the same open time.
CsvBarLists ==
    { s \in UNION { [1..n -> OpenTimesMs] : n \in 0..MaxCsvBars } :
         \A i, j \in 1..Len(s) : i # j => s[i] # s[j] }

\* _create_csv_content: one row per bar in ascending open_time, each with its
\* time value.
CsvRows(bars, resolution) ==
    LET sorted == SortedSeq({bars[i] : i \in 1..Len(bars)})
    IN [n \in 1..Len(sorted) |->
          [open_time |-> sorted[n],
           time      |-> FormatLeanTimeMs(sorted[n], resolution)]]

LTInit ==
    /\ ltPc = "idle"
    /\ ltBars = << >>
    /\ ltRes = "minute"
    /\ ltRows = << >>

\* _create_csv_content(bars, resolution) is called.
LTCall(bars, resolution) ==
    /\ ltPc = "idle"
    /\ ltPc' = "called"
    /\ ltBars' = bars
    /\ ltRes' = resolution
    /\ ltRows' = << >>
    /\ UNCHANGED notLT

\* The content is built and returned.
LTCreate ==
    /\ ltPc = "called"
    /\ ltPc' = "idle"
    /\ ltRows' = CsvRows(ltBars, ltRes)
    /\ UNCHANGED <<ltBars, ltRes>>
    /\ UNCHANGED notLT

LTNext ==
    \/ \E bars \in CsvBarLists, itv \in ConvIntervals :
          LTCall(bars, LeanResolution(itv))
    \/ LTCreate

(***************************************************************************)
(*                       LeanRunner._parse_results                         *)
(*                                                                         *)
(* A file name is the sequence of its parts; "x in f.name" is true when a  *)
(* part is x, and a glob pattern "*S" matches a name that ends with the    *)
(* parts of S.  A glob lists its matches in the order of the file system,  *)
(* so the first match is any one of them.                                  *)
(***************************************************************************)
OutputFileNames ==
    { <<"Strat", ".json">>,
      <<"Strat", "-", "summary", ".json">>,
      <<"Strat", "-", "order-events", ".json">>,
      <<"data-monitor", "-", "report", ".json">>,
      <<"summary", "-", "of", "-", "run", ".json">>,
      <<"alpha", ".json">>,
      <<"Strat", ".log">>,
      <<"log", ".txt">> }
NoFile == << >>

\* x in f.name
InName(x, name) == \E i \in 1..Len(name) : name[i] = x

\* output_dir.glob("*" + suffix)
RECURSIVE EndsWith(_, _)
EndsWith(name, suffix) ==
    \/ suffix = << >>
    \/ /\ name # << >>
       /\ name[Len(name)] = suffix[Len(suffix)]
       /\ EndsWith(SubSeq(name, 1, Len(name) - 1),
                   SubSeq(suffix, 1, Len(suffix) - 1))
Glob(dir, suffix) == { f \in dir : EndsWith(f, suffix) }

AuxiliaryMarkers == {"summary", "order-events", "data-monitor"}

\* A choice of results files that excludes nothing.
ResultsFilesAllJson(dir) == Glob(dir, <<".json">>)

\* l.246-254: the JSON files with no auxiliary marker in the name, or, when
\* there is none, the files matching *-summary.json.
ResultsFiles(dir) ==
    LET all_json == Glob(dir, <<".json">>)
        results_files ==
            { f \in all_json : ~ \E x \in AuxiliaryMarkers : InName(x, f) }
    IN IF results_files = {} THEN Glob(dir, <<"-", "summary", ".json">>)
       ELSE results_files

\* l.274-275
LogFiles(dir) == Glob(dir, <<".log">>)

RSInit ==
    /\ rsPc = "idle"
    /\ rsDir = {}
    /\ rsResultsFile = NoFile
    /\ rsLogFile = NoFile

\* _parse_results(strategy_name, output_dir, ...) is called on a directory.
RSCall(dir) ==
    /\ rsPc = "idle"
    /\ rsPc' = "called"
    /\ rsDir' = dir
    /\ rsResultsFile' = NoFile
    /\ rsLogFile' = NoFile
    /\ UNCHANGED notRS

\* The result is returned: results_files[0] and log_files[0], or None.
RSParse ==
    /\ rsPc = "called"
    /\ rsPc' = "idle"
    /\ IF ResultsFiles(rsDir) = {} THEN rsResultsFile' = NoFile
       ELSE rsResultsFile' \in ResultsFiles(rsDir)
    /\ IF LogFiles(rsDir) = {} THEN rsLogFile' = NoFile
       ELSE rsLogFile' \in LogFiles(rsDir)
    /\ UNCHANGED rsDir
    /\ UNCHANGED notRS

RSNext ==
    \/ \E dir \in SUBSET OutputFileNames : RSCall(dir)
    \/ RSParse

(***************************************************************************)
(*                   ResultsParser._parse_equity_curve                     *)
(*                                                                         *)
(* A point of the "Equity" series is {"x": timestamp, "y": equity}.  The   *)
(* equities of the model are chosen so that drawdown / peak * 100 is a     *)
(* whole number, which the integer division below then gives exactly.      *)
(***************************************************************************)
EquityValues == {0 - 5, 0, 5, 10}
MaxPointTime == 1
MaxPoints == 3
EquityPointsIn == [x : 0..MaxPointTime, y : EquityValues]
RECURSIVE PointSeqs(_)
PointSeqs(n) ==
    IF n = 0 THEN {<< >>}
    ELSE PointSeqs(n - 1) \cup
         { Append(s, p) : s \in { q \in PointSeqs(n - 1) : Len(q) = n - 1 },
                          p \in EquityPointsIn }
EquitySeries == PointSeqs(MaxPoints)

\* peak_equity after the first n points: it starts at 0 (l.278) and is
\* raised by every larger equity (l.285-286).
RECURSIVE PeakEquity(_, _)
PeakEquity(series, n) ==
    IF n = 0 THEN 0
    ELSE LET before == PeakEquity(series, n - 1)
         IN IF series[n].y > before THEN series[n].y ELSE before

\* _parse_equity_curve: one EquityPoint per point of the series, in the order
\* of the series.
ParseEquityCurve(series) ==
    [n \in 1..Len(series) |->
        LET equity == series[n].y
            peak_equity == PeakEquity(series, n)
            drawdown == peak_equity - equity
        IN [timestamp |-> series[n].x,
            equity |-> equity,
            drawdown |-> drawdown,
            drawdown_percent |->
                IF peak_equity > 0 THEN (drawdown * 100) \div peak_equity ELSE 0]]

EQInit ==
    /\ eqPc = "idle"
    /\ eqIn = << >>
    /\ eqCurve = << >>

\* _parse_equity_curve(charts) is called with a series.
EQCall(series) ==
    /\ eqPc = "idle"
    /\ eqPc' = "called"
    /\ eqIn' = series
    /\ eqCurve' = << >>
    /\ UNCHANGED notEQ

\* The curve is returned.
EQParse ==
    /\ eqPc = "called"
    /\ eqPc' = "done"
    /\ eqCurve' = ParseEquityCurve(eqIn)
    /\ UNCHANGED eqIn
    /\ UNCHANGED notEQ

EQNext ==
    \/ /\ eqPc = "idle"
       /\ \E series \in EquitySeries : EQCall(series)
    \/ EQParse

(***************************************************************************)
(*                             KlineData.merge                             *)
(*                                                                         *)
(* A bar is its open_time and a tag standing for the rest of its content   *)
(* (two fetches of one open time can differ in it).  The series merged are *)
(* series as the fetcher and the cache produce them: ascending, one bar    *)
(* per open time.                                                          *)
(***************************************************************************)
BarContents == {1, 2}
MergeSymbols == Symbols \cup {"ETHUSDT"}
MergeSeries ==
    { [symbol |-> sym, interval |-> itv,
       bars |-> [n \in 1..Cardinality(S) |->
                    [open_time |-> SortedSeq(S)[n], content |-> c[SortedSeq(S)[n]]]]] :
         sym \in MergeSymbols, itv \in Intervals,
         S \in SUBSET Times, c \in [Times -> BarContents] }
NoMergeSeries == [symbol |-> "", interval |-> "12h", bars |-> << >>]

\* {bar.open_time: bar for bar in bars} written into the dict d: a later bar
\* of an open time replaces the earlier one.
RECURSIVE BarsDict(_, _)
BarsDict(d, bars) ==
    IF bars = << >> THEN d
    ELSE LET bar == Head(bars)
         IN BarsDict([t \in DOMAIN d \cup {bar.open_time} |->
                          IF t = bar.open_time THEN bar ELSE d[t]],
                     Tail(bars))

\* sorted(bars_dict.values(), key=lambda x: x.open_time)
SortedValues(d) ==
    LET keys == SortedSeq(DOMAIN d)
    IN [n \in 1..Len(keys) |-> d[keys[n]]]

\* A merge in which the bars of self replace those of the argument.
MergeKeepsSelf(self, other) ==
    IF self.symbol # other.symbol \/ self.interval # other.interval
    THEN [raised |-> "ValueError", bars |-> << >>]
    ELSE [raised |-> "none",
          bars |-> SortedValues(BarsDict(BarsDict(<< >>, other.bars), self.bars))]

\* merge: ValueError for another symbol or interval; otherwise the bars of
\* self, then those of other, keyed by open_time and sorted.
Merge(self, other) ==
    IF self.symbol # other.symbol \/ self.interval # other.interval
    THEN [raised |-> "ValueError", bars |-> << >>]
    ELSE [raised |-> "none",
          bars |-> SortedValues(BarsDict(BarsDict(<< >>, self.bars), other.bars))]

MGInit ==
    /\ mgPc = "idle"
    /\ mgSelf = NoMergeSeries
    /\ mgOther = NoMergeSeries
    /\ mgOut = [raised |-> "none", bars |-> << >>]

\* self.merge(other) is called.
MGCall(self, other) ==
    /\ mgPc = "idle"
    /\ mgPc' = "called"
    /\ mgSelf' = self
    /\ mgOther' = other
    /\ UNCHANGED <<mgOut, notMG>>

\* merge returns or raises; the two series are read only.
MGMerge ==
    /\ mgPc = "called"
    /\ mgPc' = "done"
    /\ mgOut' = Merge(mgSelf, mgOther)
    /\ UNCHANGED <<mgSelf, mgOther, notMG>>

MGNext ==
    \/ /\ mgPc = "idle"
       /\ \E self \in MergeSeries, other \in MergeSeries : MGCall(self, other)
    \/ MGMerge

(***************************************************************************)
(*      The requests of one fetch_klines call and their acquires           *)
(*                                                                         *)
(* fetch_klines awaits fetch_klines_chunk for one chunk after the other    *)
(* (l.247-254); each chunk is one _make_request, whose for-loop awaits     *)
(* rate_limiter.acquire(weight) at the top of every attempt (l.110-112)    *)
(* and then awaits the response of session.get.                            *)
(***************************************************************************)
\* The most chunks of a call of the model.
MaxSeqChunks == 2

\* Page sizes (the limit argument), on both sides of every weight step.
PageSizes == {50, 100, 499, 500, 1000, 1001, 1500, 2000}
MaxLimitSetting == 1500

\* get_weight_for_limit (config/intervals.py)
GetWeightForLimit(limit) ==
    IF limit < 100 THEN 1
    ELSE IF limit < 500 THEN 2
    ELSE IF limit <= 1000 THEN 5
    ELSE 10

\* params["limit"] of fetch_klines_chunk: min(limit, self.config.max_limit)
PageLimit(limit) == Min(limit, MaxLimitSetting)

\* What comes back for a request: 200, 429, an aiohttp.ClientError, or any
\* other status.
SeqResponses == {"ok", "429", "transient", "api_error"}

\* int(response.headers.get("Retry-After", 60)) of a 429.
RetryAfters == {1, DefaultRetryAfter}

SQInit ==
    /\ sqPc = "idle"
    /\ sqLimit = 0
    /\ sqChunks = 0
    /\ sqChunk = 0
    /\ sqAttempt = 0
    /\ sqAcquires = << >>
    /\ sqRequests = << >>
    /\ sqInFlight = 0
    /\ sqSleep = 0

\* A fetch of n chunks with page size limit starts: the first chunk enters
\* _make_request.
SQCall(limit, n) ==
    /\ sqPc = "idle"
    /\ sqPc' = "acquire"
    /\ sqLimit' = limit
    /\ sqChunks' = n
    /\ sqChunk' = 1
    /\ sqAttempt' = 0
    /\ UNCHANGED <<sqAcquires, sqRequests, sqInFlight, sqSleep, notSQ>>

\* await self.rate_limiter.acquire(weight) returns.
SQAcquire ==
    /\ sqPc = "acquire"
    /\ sqAcquires' = Append(sqAcquires, GetWeightForLimit(PageLimit(sqLimit)))
    /\ sqPc' = "send"
    /\ UNCHANGED <<sqLimit, sqChunks, sqChunk, sqAttempt, sqRequests,
                   sqInFlight, sqSleep, notSQ>>

\* self.session.get(url, params=params) is issued and awaited.
SQSend ==
    /\ sqPc = "send"
    /\ sqRequests' = Append(sqRequests, PageLimit(sqLimit))
    /\ sqInFlight' = sqInFlight + 1
    /\ sqPc' = "wait"
    /\ UNCHANGED <<sqLimit, sqChunks, sqChunk, sqAttempt, sqAcquires, sqSleep,
                   notSQ>>

\* The response arrives (or the request fails) and _make_request runs to its
\* next await or to its end.  200: the chunk is returned and the loop of
\* fetch_klines goes to the next chunk, or the call is done.  429: the
\* coroutine sleeps for the Retry-After header (60 when absent), whatever the
\* attempt.  aiohttp.ClientError: it sleeps for 2 ** attempt when another
\* attempt is left and re-raises the error on the last attempt.  Any other
\* status raises BinanceAPIError, which is no ClientError, at once.  While the
\* coroutine sleeps no request is in flight and attempt is that of the
\* request that failed.
SQResponse(r, retryAfter) ==
    /\ sqPc = "wait"
    /\ sqInFlight' = sqInFlight - 1
    /\ CASE r = "ok" ->
              /\ sqSleep' = 0
              /\ IF sqChunk < sqChunks
                 THEN /\ sqChunk' = sqChunk + 1
                      /\ sqAttempt' = 0
                      /\ sqPc' = "acquire"
                 ELSE /\ sqPc' = "done"
                      /\ UNCHANGED <<sqChunk, sqAttempt>>
         [] r = "429" ->
              /\ sqPc' = "sleep"
              /\ sqSleep' = retryAfter
              /\ UNCHANGED <<sqChunk, sqAttempt>>
         [] r = "transient" ->
              /\ IF sqAttempt < DefaultMaxRetries - 1
                 THEN /\ sqPc' = "sleep"
                      /\ sqSleep' = Pow2(sqAttempt)
                 ELSE /\ sqPc' = "failed"
                      /\ sqSleep' = 0
              /\ UNCHANGED <<sqChunk, sqAttempt>>
         [] OTHER ->
              /\ sqPc' = "failed"
              /\ sqSleep' = 0
              /\ UNCHANGED <<sqChunk, sqAttempt>>
    /\ UNCHANGED <<sqLimit, sqChunks, sqAcquires, sqRequests, notSQ>>

\* A wake-up that sends again without a new acquire.
SQWakeNoAcquire ==
    /\ sqPc = "sleep"
    /\ sqSleep' = 0
    /\ IF sqAttempt + 1 < DefaultMaxRetries
       THEN /\ sqAttempt' = sqAttempt + 1
            /\ sqPc' = "send"
       ELSE /\ sqPc' = "failed"
            /\ UNCHANGED sqAttempt
    /\ UNCHANGED <<sqLimit, sqChunks, sqChunk, sqAcquires, sqRequests,
                   sqInFlight, notSQ>>

\* asyncio.sleep returns: the for-loop goes to its next attempt, which starts
\* with acquire (continue after a 429, the end of the except block after a
\* ClientError), or range(max_retries) is exhausted and _make_request raises
\* RuntimeError("Max retries exceeded").
SQWake ==
    /\ sqPc = "sleep"
    /\ sqSleep' = 0
    /\ IF sqAttempt + 1 < DefaultMaxRetries
       THEN /\ sqAttempt' = sqAttempt + 1
            /\ sqPc' = "acquire"
       ELSE /\ sqPc' = "failed"
            /\ UNCHANGED sqAttempt
    /\ UNCHANGED <<sqLimit, sqChunks, sqChunk, sqAcquires, sqRequests,
                   sqInFlight, notSQ>>

SQNext ==
    \/ \E limit \in PageSizes, n \in 1..MaxSeqChunks : SQCall(limit, n)
    \/ SQAcquire
    \/ SQSend
    \/ \E r \in SeqResponses, retryAfter \in RetryAfters : SQResponse(r, retryAfter)
    \/ SQWake

(***************************************************************************)
(*            VibeTraderAgent: message queue and consumer loop             *)
(*                                                                         *)
(* Messages are numbered in the order process_message puts them.  The      *)
(* consumer task is "new" between create_task and its first step; a task   *)
(* cancelled by stop() ends at its next step, which the event loop runs    *)
(* before the first step of any task created later (the ready queue is     *)
(* first in, first out), and a task cancelled before its first step never  *)
(* runs.  CancelledError is not an Exception, so only the handler          *)
(* "except asyncio.CancelledError: break" catches it.                      *)
(***************************************************************************)
\* The most messages the user sends in the model.
MaxMessages == 3

AQInit ==
    /\ aqRunning = FALSE
    /\ aqLoop = "none"
    /\ aqCancelling = "none"
    /\ aqNode = "none"
    /\ aqQueue = << >>
    /\ aqPut = 0
    /\ aqTaken = << >>
    /\ aqDone = 0

\* start(): nothing when already running; otherwise the consumer task is
\* created.
AQStart ==
    /\ ~aqRunning
    /\ aqRunning' = TRUE
    /\ aqLoop' = "new"
    /\ UNCHANGED <<aqCancelling, aqNode, aqQueue, aqPut, aqTaken, aqDone, notAQ>>

\* The consumer task runs for the first time and waits in message_queue.get().
AQFirstStep ==
    /\ aqLoop = "new"
    /\ aqCancelling = "none"
    /\ aqLoop' = "waiting"
    /\ UNCHANGED <<aqRunning, aqCancelling, aqNode, aqQueue, aqPut, aqTaken,
                   aqDone, notAQ>>

\* stop(): running = False and consumer_task.cancel().  A task that died of
\* an exception, or that never ran, has nothing left to do.
AQStop ==
    /\ aqRunning
    /\ aqRunning' = FALSE
    /\ aqLoop' = "none"
    /\ aqCancelling' =
          IF aqLoop = "invoking" THEN "invoking"
          ELSE IF aqLoop \in {"waiting", "error", "outer"} THEN "idle"
          ELSE aqCancelling
    /\ UNCHANGED <<aqNode, aqQueue, aqPut, aqTaken, aqDone, notAQ>>

\* The cancelled task is stepped: CancelledError is raised at its await,
\* leaves the graph invocation if one is running, and ends the loop.
AQCancelled ==
    /\ aqCancelling # "none"
    /\ aqCancelling' = "none"
    /\ aqNode' = IF aqCancelling = "invoking" THEN "none" ELSE aqNode
    /\ UNCHANGED <<aqRunning, aqLoop, aqQueue, aqPut, aqTaken, aqDone, notAQ>>

\* process_message(message): message_queue.put(message).
AQProcessMessage ==
    /\ aqPut < MaxMessages
    /\ aqPut' = aqPut + 1
    /\ aqQueue' = Append(aqQueue, aqPut + 1)
    /\ UNCHANGED <<aqRunning, aqLoop, aqCancelling, aqNode, aqTaken, aqDone, notAQ>>

\* _consumer_loop: message = await self.message_queue.get(), then the graph
\* is invoked with it.
AQGet ==
    /\ aqLoop = "waiting"
    /\ aqQueue # << >>
    /\ aqTaken' = Append(aqTaken, [msg |-> Head(aqQueue), by |-> "consumer"])
    /\ aqQueue' = Tail(aqQueue)
    /\ aqLoop' = "invoking"
    /\ aqNode' = "running"
    /\ UNCHANGED <<aqRunning, aqCancelling, aqPut, aqDone, notAQ>>

\* The graph reaches _clarify_requirements_node, which sends its question
\* and waits in message_queue.get().
AQClarifyAsk ==
    /\ aqLoop = "invoking"
    /\ aqNode = "running"
    /\ aqNode' = "clarify"
    /\ UNCHANGED <<aqRunning, aqLoop, aqCancelling, aqQueue, aqPut, aqTaken,
                   aqDone, notAQ>>

\* _clarify_requirements_node: user_response = await message_queue.get();
\* message_queue.task_done(); the graph goes on with the answer.
AQClarifyGet ==
    /\ aqLoop = "invoking"
    /\ aqNode = "clarify"
    /\ aqQueue # << >>
    /\ aqTaken' = Append(aqTaken, [msg |-> Head(aqQueue), by |-> "clarify"])
    /\ aqQueue' = Tail(aqQueue)
    /\ aqDone' = aqDone + 1
    /\ aqNode' = "running"
    /\ UNCHANGED <<aqRunning, aqLoop, aqCancelling, aqPut, notAQ>>

\* compiled_graph.invoke returns; the loop calls task_done and waits for the
\* next message.
AQInvokeReturn ==
    /\ aqLoop = "invoking"
    /\ aqNode = "running"
    /\ aqNode' = "none"
    /\ aqDone' = aqDone + 1
    /\ aqLoop' = "waiting"
    /\ UNCHANGED <<aqRunning, aqCancelling, aqQueue, aqPut, aqTaken, notAQ>>

\* compiled_graph.invoke raises an Exception: the inner handler awaits
\* send_callback with the error text.
AQInvokeRaise ==
    /\ aqLoop = "invoking"
    /\ aqNode \in {"running", "clarify"}
    /\ aqNode' = "none"
    /\ aqLoop' = "error"
    /\ UNCHANGED <<aqRunning, aqCancelling, aqQueue, aqPut, aqTaken, aqDone, notAQ>>

\* An inner handler that marks the task done before it reports the error.
AQErrorSentDoneFirst(sent) ==
    /\ aqLoop = "error"
    /\ aqDone' = aqDone + 1
    /\ aqLoop' = IF sent THEN "waiting" ELSE "outer"
    /\ UNCHANGED <<aqRunning, aqCancelling, aqNode, aqQueue, aqPut, aqTaken, notAQ>>

\* The send of the inner handler is over: task_done and the next round, or,
\* when the send itself raised, the outer "except Exception", which awaits
\* send_callback again.
AQErrorSent(sent) ==
    /\ aqLoop = "error"
    /\ IF sent
       THEN /\ aqDone' = aqDone + 1
            /\ aqLoop' = "waiting"
       ELSE /\ aqLoop' = "outer"
            /\ UNCHANGED aqDone
    /\ UNCHANGED <<aqRunning, aqCancelling, aqNode, aqQueue, aqPut, aqTaken, notAQ>>

\* The send of the outer handler is over: task_done and the next round, or,
\* when it raised again, the exception leaves _consumer_loop and the task is
\* dead.
AQOuterSent(sent) ==
    /\ aqLoop = "outer"
    /\ IF sent
       THEN /\ aqDone' = aqDone + 1
            /\ aqLoop' = "waiting"
       ELSE /\ aqLoop' = "ended"
            /\ UNCHANGED aqDone
    /\ UNCHANGED <<aqRunning, aqCancelling, aqNode, aqQueue, aqPut, aqTaken, notAQ>>

AQNext ==
    \/ AQStart
    \/ AQFirstStep
    \/ AQStop
    \/ AQCancelled
    \/ AQProcessMessage
    \/ AQGet
    \/ AQClarifyAsk
    \/ AQClarifyGet
    \/ AQInvokeReturn
    \/ AQInvokeRaise
    \/ \E sent \in BOOLEAN : AQErrorSent(sent)
    \/ \E sent \in BOOLEAN : AQOuterSent(sent)

(***************************************************************************)
(*              BacktestContext: market orders of the simulator            *)
(*                                                                         *)
(* Cash and prices are Python floats, kept as the IEEE 754 doubles they    *)
(* are, with the default commission_rate 0.001 and slippage_rate 0.0005    *)
(* of BacktestConfig.  One symbol is traded; quantities and closes are     *)
(* whole numbers.                                                          *)
(***************************************************************************)
\* The most orders placed in the model.
MaxOrdersPlaced == 3

\* The closes of the bars, and the quantities of the orders: buys of a
\* negative, zero and positive quantity; sells of those and of far more than
\* is ever held.
Closes == {1, 2}
BuyQuantities == {0 - 1, 0, 1, 2}
SellQuantities == {0 - 1, 0, 1, 2, 2000}
NoBar == 0

\* The doubles 0.001 and 0.0005 have one mantissa, under the exponents -62
\* and -63.
RateMantissa == <<2556, 6029, 4980, 196, 1>>
\* BacktestConfig.commission_rate
CommissionRate == [sign |-> 1, mant |-> RateMantissa, exp |-> 0 - 62]
\* BacktestConfig.slippage_rate
SlippageRate == [sign |-> 1, mant |-> RateMantissa, exp |-> 0 - 63]

\* config.initial_capital of the model: 2.0.
InitialCash == IntFloat(2)

\* A position: its quantity and its entry_price.
NoPosition == [held |-> FALSE, quantity |-> 0, entry |-> ZeroFloat]
Position(q, entry_price) == [held |-> TRUE, quantity |-> q, entry |-> entry_price]

\* _apply_slippage: price + price * slippage_rate for a buy, minus for a sell.
Slipped(price, slippage, side) ==
    AddFloat(price, IF side = "BUY" THEN slippage ELSE NegFloat(slippage))
SlippageOf(price, side) == Slipped(price, MulFloats(price, SlippageRate), side)
ApplySlippage(close, side) == SlippageOf(IntFloat(close), side)

\* _calculate_commission: abs(quantity * price * commission_rate)
CalculateCommission(quantity, price) ==
    AbsFloat(MulFloats(MulFloat(price, quantity), CommissionRate))

\* _execute_market_order on cash c, position p and current bar close b: the
\* status returned (or the exception raised) and the cash and position left.
\* A buy onto a position averages the entry price and divides by the new
\* quantity; a sell credits the cash and then divides by the entry price for
\* pnl_percent: either division by zero raises after the cash was changed and
\* leaves the position as it was.
Rejected(c, p) == [status |-> "REJECTED", cash |-> c, pos |-> p]

\* The position is updated or created, the cash being paid.
BuyPosition(paid, p, quantity, exec_price, total_qty) ==
    IF ~p.held
    THEN [status |-> "FILLED", cash |-> paid,
          pos |-> Position(quantity, exec_price)]
    ELSE IF total_qty = 0
    THEN [status |-> "ZeroDivisionError", cash |-> paid, pos |-> p]
    ELSE [status |-> "FILLED", cash |-> paid,
          pos |-> Position(total_qty,
                           DivFloat(AddFloat(MulFloat(p.entry, p.quantity),
                                             MulFloat(exec_price, quantity)),
                                    total_qty))]

BuyFor(total_cost, c, p, quantity, exec_price) ==
    IF GreaterFloat(total_cost, c) THEN Rejected(c, p)
    ELSE BuyPosition(SubFloat(c, total_cost), p, quantity, exec_price,
                     p.quantity + quantity)

\* The trade is recorded and the position reduced or removed, the cash
\* being credited.
SellPosition(credited, p, left) ==
    IF p.entry.sign = 0
    THEN [status |-> "ZeroDivisionError", cash |-> credited, pos |-> p]
    ELSE [status |-> "FILLED", cash |-> credited,
          pos |-> IF left <= 0 THEN NoPosition
                  ELSE [p EXCEPT !.quantity = left]]

SellQuantity(sell_qty, c, p, exec_price, commission) ==
    SellPosition(AddFloat(c, SubFloat(MulFloat(exec_price, sell_qty),
                                      commission)),
                 p, p.quantity - sell_qty)

OrderAt(exec_price, commission, c, p, side, quantity) ==
    IF side = "BUY"
    THEN BuyFor(AddFloat(MulFloat(exec_price, quantity), commission),
                c, p, quantity, exec_price)
    ELSE IF ~p.held THEN Rejected(c, p)
    ELSE SellQuantity(Min(quantity, p.quantity), c, p, exec_price, commission)

OrderPriced(exec_price, c, p, side, quantity) ==
    OrderAt(exec_price, CalculateCommission(quantity, exec_price),
            c, p, side, quantity)

ExecuteMarketOrder(c, p, b, side, quantity) ==
    IF b = NoBar THEN Rejected(c, p)
    ELSE OrderPriced(ApplySlippage(b, side), c, p, side, quantity)

BCInit ==
    /\ bcCash = InitialCash
    /\ bcPos = NoPosition
    /\ bcBar = NoBar
    /\ bcPlaced = 0
    /\ bcLast = "none"
    /\ bcBefore = [cash |-> InitialCash, pos |-> NoPosition]

\* set_current_bar: the engine moves to a bar with this close.
BCSetCurrentBar(close) ==
    /\ bcBar # close
    /\ bcBar' = close
    /\ UNCHANGED <<bcCash, bcPos, bcPlaced, bcLast, bcBefore, notBC>>

\* place_order(order) with a market order.
BCPlaceOrder(side, quantity) ==
    /\ bcPlaced < MaxOrdersPlaced
    /\ bcPlaced' = bcPlaced + 1
    /\ bcBefore' = [cash |-> bcCash, pos |-> bcPos]
    /\ LET r == ExecuteMarketOrder(bcCash, bcPos, bcBar, side, quantity)
       IN /\ bcLast' = r.status
          /\ bcCash' = r.cash
          /\ bcPos' = r.pos
    /\ UNCHANGED <<bcBar, notBC>>

BCNext ==
    \/ \E close \in Closes : BCSetCurrentBar(close)
    \/ \E quantity \in BuyQuantities : BCPlaceOrder("BUY", quantity)
    \/ \E quantity \in SellQuantities : BCPlaceOrder("SELL", quantity)

(***************************************************************************)
(*                        DataFileManager                                  *)
(***************************************************************************)

\* _get_filename: "{SYMBOL}_{interval}_{start date}_{end date}.json".
GetFilename(sym, itv, s, e) == <<Upper(sym), itv, Day(s), Day(e)>>

\* save(data), for data with at least one bar: the file named after the
\* data's own start_time and end_time is opened with mode "w" and written.
Save(files, data) ==
    LET name == GetFilename(data.symbol, data.interval,
                            data.start_time, data.end_time)
    IN {f \in files : f.name # name} \cup {[name |-> name, data |-> data]}

\* The comprehension of find_cached that filters a record to the range.
FilterBars(bars, s, e) == SelectSeq(bars, LAMBDA t : s <= t /\ t <= e)

\* A lookup without the exact-filename shortcut.
FindCachedNoExact(files, sym, itv, s, e) ==
    LET globbed == {f \in files : f.name[1] = Upper(sym) /\ f.name[2] = itv}
        covering == {f \in globbed :
                        f.data.start_time <= s /\ f.data.end_time >= e}
    IN IF covering # {}
       THEN {[hit |-> TRUE,
              data |-> MkSeries(f.data.symbol, f.data.interval,
                                FilterBars(f.data.bars, s, e))] : f \in covering}
       ELSE {[hit |-> FALSE, data |-> NoSeries]}

\* find_cached(symbol, interval, start, end): the values it can return; "hit"
\* is FALSE for None.  The files matching the glob are visited in directory
\* order, which is not fixed, so any covering file may be the one returned.
FindCached(files, sym, itv, s, e) ==
    LET exact == {f \in files : f.name = GetFilename(sym, itv, s, e)}
        globbed == {f \in files : f.name[1] = Upper(sym) /\ f.name[2] = itv}
        covering == {f \in globbed :
                        f.data.start_time <= s /\ f.data.end_time >= e}
    IN IF exact # {}
       THEN {[hit |-> TRUE, data |-> f.data] : f \in exact}
       ELSE IF covering # {}
       THEN {[hit |-> TRUE,
              data |-> MkSeries(f.data.symbol, f.data.interval,
                                FilterBars(f.data.bars, s, e))] : f \in covering}
       ELSE {[hit |-> FALSE, data |-> NoSeries]}

\* list_cached(symbol, interval): the files matching the glob built from the
\* filters that are given; every file name of the cache has four parts.
ListCached(files, symbol, interval) ==
    {f \in files :
        /\ symbol = NoFilter \/ f.name[1] = Upper(symbol)
        /\ interval = NoFilter \/ f.name[2] = interval}

\* (now - mtime).days of a cache file: every file of the model was written
\* less than a day ago.
AgeDays(f) == 0

\* The arguments of delete_cached; NoFilter and 0 are None.
DeleteSymbols == {NoFilter, "BTCUSDT", "btcusdt", "ETHUSDT"}
DeleteIntervals == {NoFilter} \cup Intervals
DeleteAges == {0, 1}

(***************************************************************************)
(*                        BacktestingAgent                                 *)
(***************************************************************************)

\* The strategy of a request as _prepare_strategy finds it: strategy_code
\* alone ("code"); a strategy_file that exists and can be read ("file"), that
\* does not exist ("file_missing"), or that exists and cannot be read
\* ("file_unreadable"); neither of the two ("none").  strategy_file, when
\* given, is used whatever strategy_code is.
Strategies == {"code", "file", "file_missing", "file_unreadable", "none"}

Requests ==
    { r \in [symbol : Symbols, interval : Intervals, start : Times,
             end : Times, use_cached_data : BOOLEAN,
             force_data_refresh : BOOLEAN, strategy : Strategies] :
         r.start < r.end }

NoRequest ==
    [symbol |-> "BTCUSDT", interval |-> "12h", start |-> 0, end |-> 0,
     use_cached_data |-> FALSE, force_data_refresh |-> FALSE,
     strategy |-> "none"]

\* BacktestResponse(request_id, success=False) with the field defaults.
NewResponse ==
    [success |-> FALSE, report |-> FALSE, error_stage |-> "None",
     error_message |-> "None", used_cache |-> FALSE, bars_fetched |-> 0]

NoResult == [success |-> FALSE, results_file |-> FALSE, error_message |-> "None"]

StageOrder == <<"fetch", "convert", "prepare", "execute", "parse">>

\* What fetch_klines can hand back for a request: an exception (with str(e),
\* which is empty for a timeout), or the deduplicated sorted series of the
\* bars the provider has among those opening in [start, end].
FetchOutcomes(r) ==
    LET aligned == {t \in r.start..r.end : t % IntervalTicks(r.interval) = 0}
    IN {[ok |-> FALSE, bars |-> << >>, msg |-> m] :
            m \in {"Binance API Error", ""}}
       \cup
       {[ok |-> TRUE, bars |-> SortedSeq(S), msg |-> "None"] :
            S \in SUBSET aligned}

\* SUPPORTED_INTERVALS of _validate_interval.
SupportedIntervals == {"1m", "1h", "1d"}

\* The "except Exception" handler of run_backtest, then the return.
Raised(stage, msg) ==
    /\ resp' = [resp EXCEPT !.error_message = msg, !.error_stage = "unknown"]
    /\ failedAt' = stage
    /\ opc' = "returned"

OrInitIn(phase) ==
    /\ cache = {}
    /\ cache0 = {}
    /\ opc = "idle"
    /\ req = NoRequest
    /\ kline = NoSeries
    /\ resp = NewResponse
    /\ stagesRun = << >>
    /\ failedAt = "none"
    /\ netCalls = 0
    /\ result = NoResult
    /\ runs = 0
    /\ rep = phase

OrInit == OrInitIn("off")

\* run_backtest(request) is called: the response starts as a failure.
StartRun(r) ==
    /\ opc = "idle"
    /\ runs < MaxRuns
    /\ runs' = runs + 1
    /\ opc' = "fetch"
    /\ req' = r
    /\ cache0' = cache
    /\ kline' = NoSeries
    /\ resp' = NewResponse
    /\ stagesRun' = << >>
    /\ failedAt' = "none"
    /\ netCalls' = 0
    /\ result' = NoResult
    /\ UNCHANGED <<cache, notOR>>

\* Step 1, _fetch_data up to its await: the cache lookup, which returns the
\* cached series, or else fetch_klines is called and awaited.
FetchStage ==
    /\ opc = "fetch"
    /\ stagesRun' = Append(stagesRun, "fetch")
    /\ \E c \in FindCached(cache, req.symbol, req.interval, req.start, req.end) :
         IF req.use_cached_data /\ ~req.force_data_refresh
            /\ c.hit /\ Len(c.data.bars) > 0
         THEN /\ kline' = c.data
              /\ resp' = [resp EXCEPT !.used_cache = TRUE,
                                      !.bars_fetched = Len(c.data.bars)]
              /\ opc' = "convert"
              /\ UNCHANGED netCalls
         ELSE /\ netCalls' = netCalls + 1
              /\ opc' = "fetching"
              /\ UNCHANGED <<kline, resp>>
    /\ UNCHANGED <<cache, cache0, req, failedAt, result, runs, rep, notOR>>

\* _fetch_data after its await: fetch_klines raises, or returns the series,
\* which is saved (save raises on a series without bars) and returned.
FetchSave ==
    /\ opc = "fetching"
    /\ \E o \in FetchOutcomes(req) :
         IF ~o.ok
         THEN /\ Raised("fetch", o.msg)
              /\ UNCHANGED <<cache, kline>>
         ELSE IF o.bars = << >>
         THEN /\ Raised("fetch", "Cannot save empty KlineData")
              /\ UNCHANGED <<cache, kline>>
         ELSE LET data == MkSeries(Upper(req.symbol), req.interval, o.bars)
              IN /\ cache' = Save(cache, data)
                 /\ kline' = data
                 /\ resp' = [resp EXCEPT !.bars_fetched = Len(o.bars)]
                 /\ opc' = "convert"
                 /\ UNCHANGED failedAt
    /\ UNCHANGED <<cache0, req, stagesRun, netCalls, result, runs, rep, notOR>>

\* delete_cached(symbol, interval, older_than_days), called while no run is
\* between its start and its cache lookup (there is no await between them):
\* every listed file is unlinked, unless an age is asked for and the file is
\* younger.
DeleteCached(symbol, interval, older_than_days) ==
    /\ opc # "fetch"
    /\ cache' = {f \in cache :
                    \/ f \notin ListCached(cache, symbol, interval)
                    \/ older_than_days # 0 /\ AgeDays(f) < older_than_days}
    /\ UNCHANGED <<cache0, opc, req, kline, resp, stagesRun, failedAt,
                   netCalls, result, runs, rep, notOR>>

\* A conversion step that records its failure but lets the run go on.
ConvertStageSwallow ==
    /\ opc = "convert"
    /\ stagesRun' = Append(stagesRun, "convert")
    /\ \E ok \in BOOLEAN :
         /\ opc' = "prepare"
         /\ failedAt' = IF ok THEN failedAt ELSE "convert"
         /\ UNCHANGED resp
    /\ UNCHANGED <<cache, cache0, req, kline, netCalls, result, runs, rep, notOR>>

\* Step 2, _convert_data: converter.convert(kline_data) writes the Lean files
\* or raises (an I/O error).
ConvertStage ==
    /\ opc = "convert"
    /\ stagesRun' = Append(stagesRun, "convert")
    /\ \E ok \in BOOLEAN :
         IF ok
         THEN /\ opc' = "prepare"
              /\ UNCHANGED <<resp, failedAt>>
         ELSE Raised("convert", "conversion error")
    /\ UNCHANGED <<cache, cache0, req, kline, netCalls, result, runs, rep, notOR>>

\* A preparation step that does not validate the interval.
PrepareStageNoValidation ==
    /\ opc = "prepare"
    /\ stagesRun' = Append(stagesRun, "prepare")
    /\ \E written \in BOOLEAN :
         CASE req.strategy = "none" ->
                Raised("prepare", "No valid strategy file provided.")
           [] req.strategy = "file_missing" ->
                Raised("prepare", "Strategy file not found")
           [] req.strategy = "file_unreadable" ->
                Raised("prepare", "read error")
           [] OTHER ->
                IF ~written
                THEN Raised("prepare", "write error")
                ELSE /\ opc' = "execute"
                     /\ UNCHANGED <<resp, failedAt>>
    /\ UNCHANGED <<cache, cache0, req, kline, netCalls, result, runs, rep, notOR>>

\* _prepare_strategy.  Without strategy_file and strategy_code it raises "No
\* valid strategy file provided."; a strategy_file that does not exist raises
\* "Strategy file not found: ..."; _patch_strategy_file reads the file
\* (read_text raises on a file that cannot be read) and calls
\* _patch_strategy_code, as the strategy_code branch does, which starts with
\* _validate_interval and raises on an interval that is not supported; the
\* patched text is then written to strategies_dir (write_text raises when
\* that fails) and its path returned.
PrepareStage ==
    /\ opc = "prepare"
    /\ stagesRun' = Append(stagesRun, "prepare")
    /\ \E written \in BOOLEAN :
         CASE req.strategy = "none" ->
                Raised("prepare", "No valid strategy file provided.")
           [] req.strategy = "file_missing" ->
                Raised("prepare", "Strategy file not found")
           [] req.strategy = "file_unreadable" ->
                Raised("prepare", "read error")
           [] OTHER ->
                IF req.interval \notin SupportedIntervals
                THEN Raised("prepare", "Interval is not supported.")
                ELSE IF ~written
                THEN Raised("prepare", "write error")
                ELSE /\ opc' = "execute"
                     /\ UNCHANGED <<resp, failedAt>>
    /\ UNCHANGED <<cache, cache0, req, kline, netCalls, result, runs, rep, notOR>>

\* What LeanRunner.run_backtest can do: raise because Docker is not there, or
\* return the LeanBacktestResult of run_backtest_docker.
EngineOutcomes ==
    { [raised |-> TRUE, success |-> FALSE, results_file |-> FALSE,
       error_message |-> "Docker is not available."],
      [raised |-> FALSE, success |-> FALSE, results_file |-> FALSE,
       error_message |-> "Backtest timed out"],
      [raised |-> FALSE, success |-> FALSE, results_file |-> FALSE,
       error_message |-> "stderr"],
      [raised |-> FALSE, success |-> FALSE, results_file |-> FALSE,
       error_message |-> ""],
      [raised |-> FALSE, success |-> TRUE, results_file |-> TRUE,
       error_message |-> "None"],
      [raised |-> FALSE, success |-> TRUE, results_file |-> FALSE,
       error_message |-> "None"] }

\* _execute_lean_backtest and the test of result.success after it.
ExecuteStage ==
    /\ opc = "execute"
    /\ stagesRun' = Append(stagesRun, "execute")
    /\ \E e \in EngineOutcomes :
         IF e.raised
         THEN /\ Raised("execute", e.error_message)
              /\ UNCHANGED result
         ELSE /\ result' = [success |-> e.success,
                            results_file |-> e.results_file,
                            error_message |-> e.error_message]
              /\ IF ~e.success
                 THEN /\ resp' = [resp EXCEPT
                                     !.error_message = e.error_message,
                                     !.error_stage = "execution"]
                      /\ failedAt' = "execute"
                      /\ opc' = "returned"
                 ELSE /\ opc' = "parse"
                      /\ UNCHANGED <<resp, failedAt>>
    /\ UNCHANGED <<cache, cache0, req, kline, netCalls, runs, rep, notOR>>

\* A parsing step that marks the response successful before it parses.
ParseStageEarlySuccess ==
    /\ opc = "parse"
    /\ stagesRun' = Append(stagesRun, "parse")
    /\ \E corrupt \in BOOLEAN :
         IF result.results_file /\ corrupt
         THEN /\ resp' = [resp EXCEPT !.success = TRUE,
                                      !.error_message = "Expecting value",
                                      !.error_stage = "unknown"]
              /\ failedAt' = "parse"
              /\ opc' = "returned"
         ELSE /\ resp' = [resp EXCEPT !.success = TRUE, !.report = TRUE]
              /\ opc' = "returned"
              /\ UNCHANGED failedAt
    /\ UNCHANGED <<cache, cache0, req, kline, netCalls, result, runs, rep, notOR>>

\* Step 3, _parse_results, then success = True and the report is attached.
\* parse_file raises on an artifact that is not valid JSON; without an
\* artifact the report is built from the (empty) statistics of the result.
ParseStage ==
    /\ opc = "parse"
    /\ stagesRun' = Append(stagesRun, "parse")
    /\ \E corrupt \in BOOLEAN :
         IF result.results_file /\ corrupt
         THEN Raised("parse", "Expecting value")
         ELSE /\ resp' = [resp EXCEPT !.success = TRUE, !.report = TRUE]
              /\ opc' = "returned"
              /\ UNCHANGED failedAt
    /\ UNCHANGED <<cache, cache0, req, kline, netCalls, result, runs, rep, notOR>>

\* The response has been handed to the caller; the agent can run again.
ReturnRun ==
    /\ opc = "returned"
    /\ opc' = "idle"
    /\ UNCHANGED <<cache, cache0, req, kline, resp, stagesRun, failedAt,
                   netCalls, result, runs, rep, notOR>>

\* A caller invokes run_backtest with any request.
RunBacktest(r) == StartRun(r) /\ UNCHANGED rep

\* The repeated-request scenario: a first request that may use the cache ...
RepeatFirst(r) ==
    /\ rep = "ready"
    /\ r.use_cached_data /\ ~r.force_data_refresh
    /\ StartRun(r)
    /\ rep' = "first"

\* ... and, once its response is back, the identical request again.
RepeatAgain ==
    /\ rep = "first"
    /\ StartRun(req)
    /\ rep' = "repeat"

OrNext ==
    \/ \E r \in Requests : RunBacktest(r)
    \/ FetchStage
    \/ FetchSave
    \/ \E symbol \in DeleteSymbols, interval \in DeleteIntervals,
          older_than_days \in DeleteAges :
             DeleteCached(symbol, interval, older_than_days)
    \/ ConvertStage
    \/ PrepareStage
    \/ ExecuteStage
    \/ ParseStage
    \/ ReturnRun

(***************************************************************************)
(*        Concurrent runs of _fetch_data on one cache directory            *)
(***************************************************************************)

\* The most network fetches the runs of the model make, and the runs.
MaxCacheFetches == 2
CacheRuns == {1, 2}

\* The ranges the runs ask for, all of 12h bars.
CacheRequests ==
    { r \in [symbol : Symbols, interval : {"12h"}, start : Times, end : Times] :
         r.start < r.end }
NoCacheRequest == [symbol |-> "BTCUSDT", interval |-> "12h", start |-> 0, end |-> 0]

\* A save that stops before the last bar is written.
SaveTruncated(files, data) ==
    LET name == GetFilename(data.symbol, data.interval,
                            data.start_time, data.end_time)
        cut == [data EXCEPT !.bars = SubSeq(data.bars, 1, Len(data.bars) - 1)]
    IN {f \in files : f.name # name} \cup {[name |-> name, data |-> cut]}

\* save as _fetch_data calls it.  The runs are coroutines of one event loop
\* and save has no await: the file is opened, written and closed in one
\* step.
SaveFile(files, data) == Save(files, data)

CCInit ==
    /\ ccPc = [r \in CacheRuns |-> "idle"]
    /\ ccReq = [r \in CacheRuns |-> NoCacheRequest]
    /\ ccFiles = {}
    /\ ccSaved = {}
    /\ ccRead = [r \in CacheRuns |-> NoSeries]
    /\ ccNet = 0
    /\ ccBoth = FALSE

\* _fetch_data of run r up to its await: find_cached returns a record, or
\* returns None and fetch_klines is awaited.
CCLookup(r, q) ==
    /\ ccPc[r] = "idle"
    /\ ccReq' = [ccReq EXCEPT ![r] = q]
    /\ \E c \in FindCached(ccFiles, q.symbol, q.interval, q.start, q.end) :
         IF c.hit /\ Len(c.data.bars) > 0
         THEN /\ ccPc' = [ccPc EXCEPT ![r] = "hit"]
              /\ ccRead' = [ccRead EXCEPT ![r] = c.data]
              /\ UNCHANGED <<ccNet, ccBoth>>
         ELSE /\ ccNet < MaxCacheFetches
              /\ ccPc' = [ccPc EXCEPT ![r] = "fetching"]
              /\ ccNet' = ccNet + 1
              /\ ccBoth' = (ccBoth \/ \E o \in CacheRuns \ {r} : ccPc[o] = "fetching")
              /\ UNCHANGED ccRead
    /\ UNCHANGED <<ccFiles, ccSaved, notCC>>

\* fetch_klines of run r returns its series and _fetch_data saves it; an
\* exception of the fetch, or of save for a series without bars, leaves
\* _fetch_data.
CCFetched(r, o) ==
    /\ ccPc[r] = "fetching"
    /\ IF o.ok /\ o.bars # << >>
       THEN LET data == MkSeries(Upper(ccReq[r].symbol), ccReq[r].interval, o.bars)
            IN /\ ccFiles' = SaveFile(ccFiles, data)
               /\ ccSaved' = ccSaved \cup {data}
               /\ ccPc' = [ccPc EXCEPT ![r] = "saved"]
       ELSE /\ ccPc' = [ccPc EXCEPT ![r] = "failed"]
            /\ UNCHANGED <<ccFiles, ccSaved>>
    /\ UNCHANGED <<ccReq, ccRead, ccNet, ccBoth, notCC>>

\* The run is over; the agent takes the next request.
CCReturn(r) ==
    /\ ccPc[r] \in {"hit", "saved", "failed"}
    /\ ccPc' = [ccPc EXCEPT ![r] = "idle"]
    /\ ccReq' = [ccReq EXCEPT ![r] = NoCacheRequest]
    /\ ccRead' = [ccRead EXCEPT ![r] = NoSeries]
    /\ UNCHANGED <<ccFiles, ccSaved, ccNet, ccBoth, notCC>>

\* delete_cached(symbol, interval, older_than_days) is called while the runs
\* are at their awaits or between requests.
CCDelete(symbol, interval, older_than_days) ==
    /\ ccFiles' = {f \in ccFiles :
                      \/ f \notin ListCached(ccFiles, symbol, interval)
                      \/ older_than_days # 0 /\ AgeDays(f) < older_than_days}
    /\ UNCHANGED <<ccPc, ccReq, ccSaved, ccRead, ccNet, ccBoth, notCC>>

CCNext ==
    \/ \E r \in CacheRuns, q \in CacheRequests : CCLookup(r, q)
    \/ \E symbol \in DeleteSymbols, interval \in DeleteIntervals,
          older_than_days \in DeleteAges :
             CCDelete(symbol, interval, older_than_days)
    \/ \E r \in CacheRuns : \E o \in FetchOutcomes(ccReq[r]) : CCFetched(r, o)
    \/ \E r \in CacheRuns : CCReturn(r)

Init == RLInit /\ MRInit /\ OrInit /\ FKInit /\ LRInit /\ CVInit /\ PRInit /\ SHInit /\ ALInit /\ SGInit /\ CCInit /\ LTInit /\ RSInit /\ EQInit /\ MGInit /\ SQInit /\ AQInit /\ BCInit

Spec == Init /\ [][OrNext]_vars

RepeatNext ==
    \/ \E r \in Requests : RepeatFirst(r)
    \/ RepeatAgain
    \/ FetchStage
    \/ FetchSave
    \/ ConvertStage
    \/ PrepareStage
    \/ ExecuteStage
    \/ ParseStage
    \/ ReturnRun

InitRepeat == RLInit /\ MRInit /\ OrInitIn("ready") /\ FKInit /\ LRInit /\ CVInit /\ PRInit /\ SHInit /\ ALInit /\ SGInit /\ CCInit /\ LTInit /\ RSInit /\ EQInit /\ MGInit /\ SQInit /\ AQInit /\ BCInit

SpecRepeat == InitRepeat /\ [][RepeatNext]_vars

SpecRL == Init /\ [][RLNext]_vars

SpecReq == Init /\ [][MRNext]_vars

SpecFetch == Init /\ [][FKNext]_vars

SpecRun == Init /\ [][LRNext]_vars

SpecConv == Init /\ [][CVNext]_vars

SpecParse == Init /\ [][PRNext]_vars

SpecShare == Init /\ [][SHNext]_vars

SpecGraph == Init /\ [][SGNext]_vars

SpecCache == Init /\ [][CCNext]_vars

SpecLeanTime == Init /\ [][LTNext]_vars

SpecResults == Init /\ [][RSNext]_vars

SpecEquity == Init /\ [][EQNext]_vars

SpecMerge == Init /\ [][MGNext]_vars

SpecSeq == Init /\ [][SQNext]_vars

SpecQueue == Init /\ [][AQNext]_vars

SpecSim == Init /\ [][BCNext]_vars

\* Time advances and every caller that can run does run.
SpecAcquire ==
    /\ Init /\ [][ALNext]_vars
    /\ WF_vars(ALTick)
    /\ \A c \in AcqCallers : WF_vars(ALLoop(c))

\* Weight debited at the ticks t .. t + WindowTicks - 1 (a window of length
\* window_seconds starting at t).
RECURSIVE SumLog(_, _)
SumLog(lo, hi) ==
    IF lo > hi THEN 0
    ELSE (IF lo \in Ticks THEN debitLog[lo] ELSE 0) + SumLog(lo + 1, hi)

\* C1 (as claimed): in every window of length window_seconds the weight
\* debited from the weight bucket is at most max_weight.
C1_WindowWeightBounded ==
    \A t \in Ticks : SumLog(t, t + WindowTicks - 1) <= MaxWeight

\* C2 (as claimed): no acquire call has debited one bucket while its debit of
\* the other bucket is still outstanding.
C2_DebitsAtomic ==
    \A c \in Callers :
        (rlpc[c]["request"] = "done") <=> (rlpc[c]["weight"] = "done")


(***************************************************************************)
(*                     Claims on the orchestrator                          *)
(***************************************************************************)

\* _fetch_data of the current run has returned or raised.
FetchDone == stagesRun # << >> /\ opc # "fetching"

\* C3: the stages a run has entered are a prefix of fetch, convert, prepare,
\* execute, parse (so each at most once), and once a stage has failed the run
\* has returned with that stage as the last one entered.
C3_StagesPrefixStopAtFailure ==
    /\ Len(stagesRun) <= Len(StageOrder)
    /\ stagesRun = SubSeq(StageOrder, 1, Len(stagesRun))
    /\ failedAt # "none" =>
          /\ opc \in {"returned", "idle"}
          /\ stagesRun[Len(stagesRun)] = failedAt

\* Witness of C3: conversion failed and the run returned after two stages.
C3_Witness ==
    /\ opc = "returned"
    /\ failedAt = "convert"
    /\ stagesRun = <<"fetch", "convert">>

\* The error_stage the claim expects for a failure in each stage.
ExpectedTag(stage) ==
    CASE stage = "fetch" -> "data_fetch"
      [] stage = "convert" -> "conversion"
      [] stage = "execute" -> "execution"
      [] stage = "parse" -> "parsing"
      [] OTHER -> "unknown"

\* C4 (as claimed): on failure error_stage names the stage that failed.
C4_ErrorStageNamesStage ==
    failedAt # "none" => resp.error_stage = ExpectedTag(failedAt)

\* C5: a returned response with success = True comes from a run in which all
\* five stages completed and carries a report; one with success = False has
\* error_stage and error_message set (not None) and carries no report.
C5_SuccessOnlyIfComplete ==
    opc = "returned" =>
        /\ resp.success =>
              /\ stagesRun = StageOrder
              /\ failedAt = "none"
              /\ resp.report
        /\ ~resp.success =>
              /\ failedAt # "none"
              /\ resp.error_stage # "None"
              /\ resp.error_message # "None"
              /\ ~resp.report

\* Witness of C5: every stage but the last succeeded; the response is a
\* failure.
C5_Witness ==
    /\ opc = "returned"
    /\ failedAt = "parse"
    /\ ~resp.success
    /\ stagesRun = StageOrder

\* A record of the cache, of the request's symbol and interval, whose stored
\* range is a superset of the requested range.
CoveredBy(files, r) ==
    \E f \in files :
        /\ f.data.symbol = Upper(r.symbol)
        /\ f.data.interval = r.interval
        /\ f.data.start_time <= r.start
        /\ f.data.end_time >= r.end

\* C6 (as claimed): a request covered by a saved record is served from the
\* cache, without a network call, with bars opening in [start, end) only.
C6_CoveredServedInRange ==
    (FetchDone /\ req.use_cached_data /\ ~req.force_data_refresh
       /\ CoveredBy(cache0, req)) =>
        /\ resp.used_cache
        /\ netCalls = 0
        /\ \A i \in 1..Len(kline.bars) :
              req.start <= kline.bars[i] /\ kline.bars[i] < req.end

\* C7 (as claimed): once the first run has fetched and saved, the identical
\* repeated request is a cache hit without a network call.
C7_RepeatAlwaysHits ==
    (rep = "repeat" /\ FetchDone /\ cache0 # {}) =>
        (resp.used_cache /\ netCalls = 0)

\* The saved series has the UTC dates of the request at both ends.
SameDates(f, r) ==
    /\ Day(f.data.start_time) = Day(r.start)
    /\ Day(f.data.end_time) = Day(r.end)

\* The saved series spans the requested range and has a bar opening in it.
SpansWithBar(f, r) ==
    /\ f.data.start_time <= r.start
    /\ f.data.end_time >= r.end
    /\ \E i \in 1..Len(f.data.bars) :
          r.start <= f.data.bars[i] /\ f.data.bars[i] <= r.end

\* C7 (amended): from an empty cache the first run is a miss that makes one
\* network fetch and, when that yields bars, saves exactly that series; the
\* identical repeat is a cache hit, without a network call, exactly when the
\* saved series has the request's start and end dates or spans the requested
\* range with a bar in it, and is a miss otherwise.
C7_RepeatHitsIffSavedMatches ==
    /\ (rep = "first" /\ FetchDone) =>
          /\ ~resp.used_cache
          /\ netCalls = 1
          /\ failedAt = "none" => cache = {[name |->
                 GetFilename(kline.symbol, kline.interval,
                             kline.start_time, kline.end_time),
                 data |-> kline]}
          /\ failedAt = "fetch" => cache = {}
    /\ (rep = "repeat" /\ FetchDone) =>
          /\ resp.used_cache <=>
                \E f \in cache0 : SameDates(f, req) \/ SpansWithBar(f, req)
          /\ resp.used_cache => (netCalls = 0 /\ cache = cache0)
          /\ ~resp.used_cache => netCalls = 1

\* Witness of C7: the repeated request was served from the cache.
C7_Witness ==
    /\ rep = "repeat"
    /\ opc = "returned"
    /\ resp.used_cache
    /\ netCalls = 0
    /\ resp.success

\* C8 (as claimed): the step of _fetch_data that saves the fetched series
\* removes or changes no stored record.
C8_SaveKeepsRecords ==
    [][(opc = "fetching" /\ opc' = "convert") => cache \subseteq cache']_vars

\* C9 (as claimed): 429 responses never use up the retry budget: while every
\* response so far was a 429 the call is still going, waiting to retry.
C9_RateLimitedNeverExhausts ==
    (mrRequests > 0 /\ mrOnly429 /\ mrLast.json) => mrPc # "done"

\* C10 (as claimed): a non-200 response other than 429 ends the call at once
\* with a BinanceAPIError carrying the status and the provider's code and msg.
C10_ErrorFailsImmediately ==
    (mrLast.kind = "http" /\ mrLast.status \notin {200, 429}) =>
        /\ mrPc \in {"done", "idle"}
        /\ mrOutcome = [kind |-> "BinanceAPIError", status |-> mrLast.status,
                        code |-> mrLast.code, message |-> <<ErrorMsg(mrLast)>>]

\* The sleeps of a call whose first n attempts all failed in the transport.
BackoffSleeps(n) == [i \in 1..n |-> 2 ^ (i - 1)]

C12_NoDuplicatesSorted ==
    fkPc = "done" =>
        /\ \A i, j \in 1..Len(fkOut) :
              i < j => fkOut[i].open_time < fkOut[j].open_time
        /\ {fkOut[i].open_time : i \in 1..Len(fkOut)} =
              {fkAll[i].open_time : i \in 1..Len(fkAll)}

\* Witness of C12: the chunk responses held the same open_time twice and came
\* out of order, and the call returned.
C12_Witness ==
    /\ fkPc = "done"
    /\ \E i, j \in 1..Len(fkAll) :
          i < j /\ fkAll[i].open_time = fkAll[j].open_time
                /\ fkAll[i].chunk # fkAll[j].chunk
    /\ \E i, j \in 1..Len(fkAll) :
          i < j /\ fkAll[i].open_time > fkAll[j].open_time

\* ceil(a / b) for b > 0.
CeilDiv(a, b) == (a + b - 1) \div b

\* C13: the chunks yielded so far begin at start, are contiguous, are not
\* empty and span at most interval_ms * max_bars each, and never number more
\* than ceil((end - start) / (interval_ms * max_bars)), so the generator
\* terminates; when it has finished, a range with start < end has exactly
\* that many chunks, the last ending at end (one chunk when the range is at
\* most max_bars intervals), and a range with start >= end has none.
C13_ChunksCoverRange ==
    LET d == fkReq.interval_ms * fkReq.limit
        n == Len(fkChunks)
        expected == IF fkReq.start < fkReq.end
                    THEN CeilDiv(fkReq.end - fkReq.start, d) ELSE 0
    IN /\ n <= expected
       /\ n > 0 => fkChunks[1][1] = fkReq.start
       /\ \A i \in 1..n :
             /\ fkChunks[i][1] < fkChunks[i][2]
             /\ fkChunks[i][2] - fkChunks[i][1] <= d
             /\ fkChunks[i][2] <= fkReq.end
             /\ i < n => fkChunks[i + 1][1] = fkChunks[i][2]
       /\ fkPc \notin {"idle", "chunking"} =>
             /\ n = expected
             /\ n > 0 => fkChunks[n][2] = fkReq.end
             /\ (fkReq.start < fkReq.end /\ fkReq.end - fkReq.start <= d)
                   => n = 1

\* Witness of C13: a range split into full chunks and a shorter last one.
C13_Witness ==
    /\ fkPc = "loop"
    /\ Len(fkChunks) >= 2
    /\ fkChunks[Len(fkChunks)][2] - fkChunks[Len(fkChunks)][1]
          < fkReq.interval_ms * fkReq.limit
    /\ fkChunks[1][2] - fkChunks[1][1] = fkReq.interval_ms * fkReq.limit
    /\ fkReq.limit > 1

\* C14: the runner never waits for the process beyond timeout_seconds; when
\* the deadline ends the wait, the process has been killed and the result on
\* its way out, and then returned, is a failure whose message records the
\* configured timeout.
C14_TimeoutKillsAndFails ==
    /\ lrPc = "wait" => (lrElapsed <= lrTimeout /\ lrProc = "running")
    /\ lrDeadline =>
          /\ lrProc = "killed"
          /\ lrPc \in {"cleanup", "done"}
          /\ lrPending.kind = "result"
          /\ ~lrPending.success
          /\ lrPending.message = <<"Backtest timed out after", lrTimeout>>
          /\ lrPc = "done" => lrOutcome = lrPending

\* Witness of C14: a run with timeout_seconds = 2 returned after the deadline.
C14_Witness ==
    /\ lrPc = "done"
    /\ lrDeadline
    /\ lrTimeout = 2
    /\ lrElapsed = 2
    /\ lrOutcome.message = <<"Backtest timed out after", 2>>

\* C15: when run_backtest_docker is over, a temporary directory it created is
\* removed, or was left behind by a permission error of the removal that was
\* ignored; and the result or exception that leaves the call is the one the
\* run produced before the cleanup.
C15_TempDirCleanedUp ==
    lrPc = "done" =>
        /\ lrTemp # "exists"
        /\ lrTemp = "left" <=> lrPermErr
        /\ lrTemp = "none" => (lrDocker = "down" \/ lrOutcome.message = <<"OSError">>)
        /\ lrTemp # "none" => (lrOutcome = lrPending /\ lrOutcome.kind # "none")

\* Witness of C15: the strategy file could not be copied; the directory is
\* gone and the copy's exception reached the caller.
C15_Witness ==
    /\ lrPc = "done"
    /\ lrTemp = "removed"
    /\ ~lrCopied
    /\ lrOutcome.kind = "raise"
    /\ lrOutcome.message = <<"FileNotFoundError">>

\* C16 (as claimed): after a cancelled run no subprocess it started is alive.
C16_CancelKillsSubprocess ==
    (lrCancelled /\ lrPc = "done") => lrProc # "running"

\* C20: nothing is created or started before the Docker check, and when the
\* check fails the call ends at once with RuntimeError: no temporary
\* directory, no copied strategy file, no subprocess.
C20_DockerCheckedFirst ==
    /\ lrDocker = "unknown" =>
          (lrTemp = "none" /\ ~lrCopied /\ lrProc = "none")
    /\ lrDocker = "down" =>
          /\ lrPc = "done"
          /\ lrOutcome.kind = "raise"
          /\ lrOutcome.message = <<"RuntimeError: Docker is not available">>
          /\ lrTemp = "none"
          /\ ~lrCopied
          /\ lrProc = "none"

\* Witness of C20: the Docker check failed and the call is over.
C20_Witness ==
    /\ lrDocker = "down"
    /\ lrPc = "done"
    /\ lrOutcome.kind = "raise"

\* The stages the current run has entered.
StagesEntered == {stagesRun[i] : i \in 1..Len(stagesRun)}

StrategyAtHand == req.strategy \in {"code", "file"}

C18_UnsupportedNeverConverts ==
    (req.interval \notin SupportedIntervals) => "convert" \notin StagesEntered

\* C19 (as claimed): a run whose engine result has no results file fails with
\* error stage "execution", and a run whose results file cannot be parsed
\* fails with error stage "parsing".
C19_MissingOrCorruptArtifactFails ==
    (opc = "returned" /\ "execute" \in StagesEntered /\ result.success) =>
        /\ ~result.results_file =>
              (~resp.success /\ resp.error_stage = "execution")
        /\ failedAt = "parse" =>
              (~resp.success /\ resp.error_stage = "parsing")

\* What run_backtest does with what the runner hands back: an exception goes
\* to "except Exception" (error_stage "unknown"), a result with success =
\* False is tagged "execution", a successful one goes on to the parsing.
StageAfterEngine(o) ==
    IF o.kind = "raise" THEN "unknown"
    ELSE IF ~o.success THEN "execution"
    ELSE "parse"

\* C21 (as claimed): after a non-zero exit the error message of the result
\* is the captured stderr.
C21_MessageIsStderr ==
    (lrProc = "exited" /\ lrCode # 0) => lrPending.message = <<lrErr>>

\* C21 (amended): after a non-zero exit before the deadline the result is a
\* failure without a results file, whatever the results directory holds; its
\* message is the captured stderr, or "Unknown error" when stderr is empty;
\* and the orchestrator tags the returned result "execution".
C21_NonZeroExitFails ==
    (lrProc = "exited" /\ lrCode # 0) =>
        /\ ~lrDeadline
        /\ lrPending.kind = "result"
        /\ ~lrPending.success
        /\ lrPending.results_file = "none"
        /\ lrPending.message =
              <<IF lrErr = "" THEN "Unknown error" ELSE lrErr>>
        /\ lrPc = "done" =>
              /\ lrOutcome = lrPending
              /\ StageAfterEngine(lrOutcome) = "execution"

\* Witness of C21: the engine exited with code 1 and text on stderr, and the
\* call returned.
C21_Witness ==
    /\ lrPc = "done"
    /\ lrCode = 1
    /\ lrErr = "Algorithm error"
    /\ lrOutcome.message = <<"Algorithm error">>

\* The calendar days on which bars of the converted series open.
DaysOf(bars) == {bars[i] \div DayTicks : i \in 1..Len(bars)}

\* C22: for minute-tier input convert writes one file per calendar day that
\* has a bar, all in minute/{symbol}, and the file of a day holds one row for
\* each bar that opens on that day and no other row.
C22_MinuteOneArtifactPerDay ==
    (cvPc = "done" /\ ConvMinutes(cvIn.interval) < 60) =>
        /\ Cardinality(cvCreated) = Cardinality(DaysOf(cvIn.bars))
        /\ cvCreated \subseteq cvFiles
        /\ \A f \in cvCreated :
              /\ f.dir = <<"minute", "btcusdt">>
              /\ f.name[2] = "trade"
              /\ f.name[1] \in DaysOf(cvIn.bars)
        /\ \A d \in DaysOf(cvIn.bars) :
              \E f \in cvCreated :
                 /\ f.name[1] = d
                 /\ \A g \in cvFiles :
                       (g.dir = f.dir /\ g.name[1] = d) => g = f
                 /\ {f.rows[n][1] : n \in 1..Len(f.rows)} =
                       {t % DayTicks : t \in {cvIn.bars[i] : i \in 1..Len(cvIn.bars)}
                                              \cap {u \in ConvTimes : u \div DayTicks = d}}
                 /\ Len(f.rows) =
                       Cardinality({i \in 1..Len(cvIn.bars) :
                                      cvIn.bars[i] \div DayTicks = d})

\* Witness of C22: a 30m series with bars on three days, two of them on the
\* same day, has been converted.
C22_Witness ==
    /\ cvPc = "done"
    /\ cvIn.interval = "30m"
    /\ Cardinality(DaysOf(cvIn.bars)) = 3
    /\ Len(cvIn.bars) > 3
    /\ Cardinality(cvCreated) = 3

\* C23 (as claimed): hour-tier or daily-tier input with a bar gives exactly
\* one file for the symbol, directly in the resolution directory, whatever
\* the number of days covered.
C23_HourDailyOneArtifact ==
    (cvPc = "done" /\ ConvMinutes(cvIn.interval) >= 60 /\ cvIn.bars # << >>)
        => /\ Cardinality(cvCreated) = 1
           /\ \A f \in cvCreated :
                 f.dir = <<IF ConvMinutes(cvIn.interval) < 1440
                           THEN "hour" ELSE "daily">>

\* The number of orders of the parsed result with the given status and
\* direction.
CountOrders(status, direction) ==
    Cardinality({i \in 1..Len(prIn.orders) :
                   /\ prIn.orders[i].status = status
                   /\ prIn.orders[i].direction = direction})

\* C24: when the result holds fill records, the reported number of trades is
\* the smaller of the number of filled buys and the number of filled sells,
\* whatever the "Total Trades" statistic and the engine's own count say.
C24_TradesAreMinOfFills ==
    (prPc = "done" /\ \E i \in 1..Len(prIn.orders) : prIn.orders[i].status = 3)
        => \E buys, sells \in 0..Len(prIn.orders) :
              /\ buys = CountOrders(3, 0)
              /\ sells = CountOrders(3, 1)
              /\ prTotal = IF buys <= sells THEN buys ELSE sells

\* Witness of C24: three filled buys and two filled sells were parsed, with a
\* statistic and an engine count of 4, and 2 trades are reported.
C24_Witness ==
    /\ prPc = "done"
    /\ CountOrders(3, 0) = 3
    /\ CountOrders(3, 1) = 2
    /\ prIn.totalTrades = "4"
    /\ prIn.totalNumberOfTrades = 4
    /\ prTotal = 2

\* C25: a row with an unparsable numeric field is skipped and the series
\* continues: no call of fetch_klines ends with the ValueError of such a row.
C25_MalformedRowSkipped ==
    ~(fkPc = "failed" /\ fkErr = "ValueError")

\* C26: the requests of all runs draw on one limiter: any two runs that
\* fetch use the same WeightedRateLimiter, and the requests both runs send in
\* one instant, and their weight, stay within a single pair of buckets.
C26_OneSharedLimiter ==
    /\ \A r1, r2 \in Runs :
          (shLimiterOf[r1] # 0 /\ shLimiterOf[r2] # 0)
              => shLimiterOf[r1] = shLimiterOf[r2]
    /\ shGranted <= BurstRequests
    /\ shWeight <= BurstWeight

\* C27: acquire only delays: every call, whatever its tokens argument,
\* eventually returns, and so does every caller queued behind it.
C27_AcquireEventuallyReturns ==
    \A c \in AcqCallers : (alPc[c] # "idle") ~> (alPc[c] = "idle")

\* C28: a backtest failure whose message contains "Invalid symbol" or
\* "code=-1121" is given the error type symbol and the graph goes from
\* compile to clarify, whatever the retry count; it never goes to design.
C28_SymbolErrorAsksUser ==
    (/\ sgFrom = "compile"
     /\ sgBacktest = "failed"
     /\ ("Invalid symbol" \in sgMsg \/ "code=-1121" \in sgMsg))
        => (sgErrType = "symbol" /\ sgNode = "clarify")

\* Witness of C28: the third failed backtest in a row fails with a message
\* that has the code -1121 and also mentions syntax, and the user is asked.
C28_Witness ==
    /\ sgFrom = "compile"
    /\ sgBacktest = "failed"
    /\ sgMsg = {"code=-1121", "syntax"}
    /\ sgRetry = 3
    /\ sgNode = "clarify"

\* C29: the design -> compile cycle is bounded: no more than 5 compile steps
\* run between two user messages.
C29_CompileCycleBounded ==
    sgCompiles <= 5

\* C30: whenever entry accepts the requirements and the graph goes to
\* design, compile_retry_count is 0, last_error_type is empty and
\* compile_errors is empty.
C30_AcceptResetsRetry ==
    (sgFrom = "entry" /\ sgNode = "design")
        => (sgRetry = 0 /\ sgErrType = "" /\ sgErrors = << >>)

\* Witness of C30: entry accepts the requirements the user gave in answer to
\* a question asked after a failed compile step.
C30_Witness ==
    /\ sgFrom = "entry"
    /\ sgNode = "design"
    /\ sgAsked
    /\ sgBacktest = "failed"
    /\ sgRetry = 0

\* A record as to_dict writes it: bars in ascending order, start_time the
\* first open time and end_time the last close time.
WellFormed(d) ==
    /\ d.bars # << >>
    /\ \A i, j \in 1..Len(d.bars) : i < j => d.bars[i] < d.bars[j]
    /\ d.start_time = d.bars[1]
    /\ d.end_time = d.bars[Len(d.bars)] + (IF d.interval = "1d" THEN 2 ELSE 1) - 1

\* C31: whatever the interleaving of the runs, every file of the cache is a
\* complete record of one of the saved series, one file per name, and every
\* record find_cached hands to a run is such a series or the part of it in
\* the requested range.
C31_CacheNeverCorrupt ==
    /\ \A f \in ccFiles :
          /\ f.data \in ccSaved
          /\ WellFormed(f.data)
          /\ \A g \in ccFiles : g.name = f.name => g = f
    /\ \A r \in CacheRuns :
          ccPc[r] = "hit" =>
             \E d \in ccSaved :
                /\ ccRead[r].symbol = d.symbol
                /\ ccRead[r].interval = d.interval
                /\ \/ ccRead[r] = d
                   \/ ccRead[r].bars =
                         SelectSeq(d.bars, LAMBDA t : ccReq[r].start <= t /\ t <= ccReq[r].end)

\* Witness of C31: two runs fetched at the same time, two different series
\* were saved under one name, and a later find_cached got a record.
C31_Witness ==
    /\ ccBoth
    /\ \E d1, d2 \in ccSaved :
          /\ d1 # d2
          /\ d1.symbol = d2.symbol /\ d1.interval = d2.interval
          /\ d1.start_time \div 2 = d2.start_time \div 2
          /\ d1.end_time \div 2 = d2.end_time \div 2
    /\ \E r \in CacheRuns : ccPc[r] = "hit"

\* C32: every row of a minute-tier content carries the integer open_time mod
\* 86,400,000 (in 0..86,399,999), every row of an hour- or daily-tier content
\* carries the date, hour and minute of open_time in UTC, and the rows are in
\* ascending open_time order.
C32_TimeEncodingByTier ==
    (ltPc = "idle" /\ ltRows # << >>) =>
        /\ \A n \in 1..Len(ltRows) :
              LET row == ltRows[n]
              IN IF ltRes = "minute"
                 THEN /\ row.time.kind = "int"
                      /\ row.time.ms = row.open_time % 86400000
                      /\ row.time.ms \in 0..86399999
                 ELSE /\ row.time.kind = "text"
                      /\ row.time.at.date = row.open_time \div 86400000
                      /\ row.time.at.hour = (row.open_time % 86400000) \div 3600000
                      /\ row.time.at.minute = (row.open_time % 3600000) \div 60000
        /\ \A n \in 1..(Len(ltRows) - 1) :
              ltRows[n].open_time < ltRows[n + 1].open_time

\* C32 apart from bars that do not open on a whole second: holds.
C32_WholeSecondEncoding ==
    (ltPc = "idle" /\ ltRows # << >>) =>
        /\ \A n \in 1..Len(ltRows) :
              LET row == ltRows[n]
              IN (ltRes = "minute" /\ row.open_time % 1000 = 0) =>
                     row.time.ms = row.open_time % 86400000
        /\ \A n \in 1..(Len(ltRows) - 1) :
              ltRows[n].open_time < ltRows[n + 1].open_time

\* The JSON files of the directory whose name has no auxiliary pattern.
PrimaryFiles(dir) ==
    { f \in dir : /\ f[Len(f)] = ".json"
                  /\ \A i \in 1..Len(f) :
                        f[i] \notin {"summary", "order-events", "data-monitor"} }

\* C33: the results file returned is a JSON file of the directory with no
\* auxiliary pattern (summary, order-events, data-monitor) in its name
\* whenever there is one; a summary file is returned only when there is none;
\* and the result carries a log file of the directory when there is one.
C33_PrimaryResultByExclusion ==
    (rsPc = "idle" /\ rsDir # {}) =>
        /\ PrimaryFiles(rsDir) # {} => rsResultsFile \in PrimaryFiles(rsDir)
        /\ (rsResultsFile # NoFile /\ rsResultsFile \notin PrimaryFiles(rsDir)) =>
              /\ PrimaryFiles(rsDir) = {}
              /\ rsResultsFile \in rsDir
              /\ Len(rsResultsFile) >= 3
              /\ SubSeq(rsResultsFile, Len(rsResultsFile) - 2, Len(rsResultsFile))
                    = <<"-", "summary", ".json">>
        /\ (\E f \in rsDir : f[Len(f)] = ".log") <=> rsLogFile # NoFile
        /\ rsLogFile # NoFile => rsLogFile \in rsDir /\ rsLogFile[Len(rsLogFile)] = ".log"

\* A directory with two primary files, a summary, an order-events file and a
\* log file has been parsed.
C33_Witness ==
    /\ rsPc = "idle"
    /\ {<<"Strat", ".json">>, <<"alpha", ".json">>,
        <<"Strat", "-", "summary", ".json">>,
        <<"Strat", "-", "order-events", ".json">>,
        <<"Strat", ".log">>} \subseteq rsDir
    /\ rsResultsFile = <<"alpha", ".json">>
    /\ rsLogFile = <<"Strat", ".log">>

\* C35: when the "Total Trades" statistic is garbled (and no order or trade
\* statistic replaces it), parsing completes, the metric is 0 and the anomaly
\* is recorded in the warning list of the report.
C35_AnomalyRecordedAsWarning ==
    (/\ prPc = "done"
     /\ prIn.totalTrades = "n/a"
     /\ prIn.orders = << >>
     /\ prIn.totalNumberOfTrades = 0) =>
        /\ prTotal = 0
        /\ prWarnings # << >>

\* C35 without the warning: a garbled statistic gives the metric 0 and the
\* parse completes.
C35_GarbledStatisticIsZero ==
    (/\ prPc = "done"
     /\ prIn.totalTrades = "n/a"
     /\ prIn.orders = << >>
     /\ prIn.totalNumberOfTrades = 0) =>
        prTotal = 0

\* The largest equity among the first n points of the curve.
MaxEquitySeen(curve, n) ==
    CHOOSE m \in {curve[i].equity : i \in 1..n} :
        \A i \in 1..n : curve[i].equity <= m

\* C34: at every point of the curve the drawdown is the largest equity seen
\* up to and including it minus its equity, hence >= 0; drawdown_percent is
\* in [0, 100] when the equities are non-negative; and the points are taken
\* in ascending timestamp order.
C34_RunningPeakDrawdown ==
    (eqPc = "done" /\ eqCurve # << >>) =>
        /\ \A n \in 1..Len(eqCurve) :
              /\ eqCurve[n].drawdown = MaxEquitySeen(eqCurve, n) - eqCurve[n].equity
              /\ eqCurve[n].drawdown >= 0
        /\ (\A n \in 1..Len(eqCurve) : eqCurve[n].equity >= 0) =>
              \A n \in 1..Len(eqCurve) :
                  eqCurve[n].drawdown_percent \in 0..100
        /\ \A n \in 1..(Len(eqCurve) - 1) :
              eqCurve[n].timestamp <= eqCurve[n + 1].timestamp

\* C34 for a series of non-negative equities: the drawdown is the running
\* maximum minus the equity, and the percentage is in [0, 100].
C34_DrawdownOfNonNegativeEquities ==
    (/\ eqPc = "done" /\ eqCurve # << >>
     /\ \A n \in 1..Len(eqCurve) : eqCurve[n].equity >= 0) =>
        \A n \in 1..Len(eqCurve) :
            /\ eqCurve[n].drawdown = MaxEquitySeen(eqCurve, n) - eqCurve[n].equity
            /\ eqCurve[n].drawdown >= 0
            /\ eqCurve[n].drawdown_percent \in 0..100

\* The curve has the points of the series, in the order of the series.
C34_CurveInSeriesOrder ==
    (eqPc = "done" /\ eqCurve # << >>) =>
        /\ Len(eqCurve) = Len(eqIn)
        /\ \A n \in 1..Len(eqCurve) :
              eqCurve[n].timestamp = eqIn[n].x /\ eqCurve[n].equity = eqIn[n].y

\* The open times of a list of bars.
OpenTimes(bars) == {bars[n].open_time : n \in 1..Len(bars)}

\* C36: for the same symbol and interval, merge returns bars whose open
\* times are the union of both series', ascending with no duplicate, each the
\* bar of the argument when the argument has that open time and the bar of
\* self otherwise; a series merged with itself gives its own bars; another
\* symbol or interval raises.
C36_MergeDeduplicates ==
    (mgPc = "done") =>
        IF mgSelf.symbol = mgOther.symbol /\ mgSelf.interval = mgOther.interval
        THEN /\ mgOut.raised = "none"
             /\ OpenTimes(mgOut.bars) = OpenTimes(mgSelf.bars) \cup OpenTimes(mgOther.bars)
             /\ \A n \in 1..(Len(mgOut.bars) - 1) :
                   mgOut.bars[n].open_time < mgOut.bars[n + 1].open_time
             /\ \A n \in 1..Len(mgOut.bars) :
                   IF mgOut.bars[n].open_time \in OpenTimes(mgOther.bars)
                   THEN \E i \in 1..Len(mgOther.bars) : mgOther.bars[i] = mgOut.bars[n]
                   ELSE \E i \in 1..Len(mgSelf.bars) : mgSelf.bars[i] = mgOut.bars[n]
             /\ mgSelf = mgOther => mgOut.bars = mgSelf.bars
        ELSE mgOut.raised = "ValueError"

\* Two series that share an open time with different content, and each have
\* one the other lacks, have been merged.
C36_Witness ==
    /\ mgPc = "done"
    /\ mgOut.raised = "none"
    /\ \E i \in 1..Len(mgSelf.bars), j \in 1..Len(mgOther.bars) :
          /\ mgSelf.bars[i].open_time = mgOther.bars[j].open_time
          /\ mgSelf.bars[i].content # mgOther.bars[j].content
    /\ OpenTimes(mgSelf.bars) \ OpenTimes(mgOther.bars) # {}
    /\ OpenTimes(mgOther.bars) \ OpenTimes(mgSelf.bars) # {}
    /\ Len(mgOut.bars) = 3

\* C37: the n-th request of a fetch, retries included, comes after the n-th
\* completed acquire, which had the weight of the request's page size (1
\* below 100 bars, 2 below 500, 5 up to 1000, 10 above); at most one request
\* of the fetch is in flight; the requests issued never outnumber the
\* acquires completed; and while _make_request sleeps between two attempts
\* no request is in flight and every completed acquire has had its request.
C37_AcquireBeforeEachRequest ==
    /\ Len(sqRequests) <= Len(sqAcquires)
    /\ Len(sqAcquires) <= Len(sqRequests) + 1
    /\ \A n \in 1..Len(sqRequests) :
          sqAcquires[n] = (CASE sqRequests[n] < 100 -> 1
                             [] sqRequests[n] \in 100..499 -> 2
                             [] sqRequests[n] \in 500..1000 -> 5
                             [] OTHER -> 10)
    /\ sqInFlight <= 1
    /\ sqInFlight = 1 <=> sqPc = "wait"
    /\ sqPc = "sleep" => Len(sqAcquires) = Len(sqRequests)

\* The second chunk's request is in flight after two failed attempts of the
\* first chunk, each followed by a sleep and a new acquire: four requests,
\* four acquires.
C37_Witness ==
    /\ sqPc = "wait"
    /\ sqChunk = 2
    /\ Len(sqRequests) = 4
    /\ Len(sqAcquires) = 4
    /\ sqInFlight = 1

\* C38: in every reachable state the token count of each bucket is between 0
\* and max_requests, whatever the interleaving of acquire calls and clock
\* advances.
C38_TokensWithinCapacity ==
    \A b \in Buckets :
        /\ tokens[b].sign >= 0
        /\ ~GreaterFloat(tokens[b], SmallFloat(Capacity(b)))

\* One call of weight 1 has debited both buckets in second 0 and nothing was
\* debited since; the weight bucket was refilled two seconds or more later,
\* when the tokens gained since the debit exceed the token debited, and is
\* at its capacity.
C38_Witness ==
    /\ debitLog[0] = 1
    /\ \A t \in Ticks \ {0} : debitLog[t] = 0
    /\ Floor(now) >= 2
    /\ lastUpdate["weight"] = now
    /\ tokens["weight"] = SmallFloat(Capacity("weight"))
    /\ lastUpdate["request"] = ZeroFloat
    /\ tokens["request"] = SmallFloat(Capacity("request") - 1)

\* C39: the messages taken from the queue followed by those still in it are
\* the messages put, in the order they were put (each is taken at most once,
\* first in first out, by the consumer loop or by the clarify node); at most
\* one graph invocation is in progress; and task_done has been called at
\* most as often as messages were taken.
C39_QueueConsumedOnceInOrder ==
    /\ [n \in 1..Len(aqTaken) |-> aqTaken[n].msg] \o aqQueue
          = [n \in 1..aqPut |-> n]
    /\ \A n \in 1..Len(aqTaken) : aqTaken[n].by \in {"consumer", "clarify"}
    /\ ~(aqLoop = "invoking" /\ aqCancelling = "invoking")
    /\ (aqNode # "none") <=> (aqLoop = "invoking" \/ aqCancelling = "invoking")
    /\ aqDone <= Len(aqTaken)

\* Three messages were taken in order: the first started an invocation, the
\* second answered its clarify node, and the third started the invocation
\* now in progress; task_done was called for the first two.
C39_Witness ==
    /\ Len(aqTaken) = 3
    /\ aqTaken[1].by = "consumer"
    /\ aqTaken[2].by = "clarify"
    /\ aqTaken[3].by = "consumer"
    /\ aqLoop = "invoking"
    /\ aqDone = 2

\* C40: after any sequence of market orders the cash is never negative and
\* no position has a quantity <= 0, and a rejected order leaves cash and
\* positions as they were.
C40_CashAndPositionsStayValid ==
    /\ bcCash.sign >= 0
    /\ bcPos.held => bcPos.quantity > 0
    /\ bcLast = "REJECTED" => (bcCash = bcBefore.cash /\ bcPos = bcBefore.pos)

\* The part of C40 that holds: a rejected order changes neither cash nor
\* positions.
C40_RejectedOrderChangesNothing ==
    bcLast = "REJECTED" => (bcCash = bcBefore.cash /\ bcPos = bcBefore.pos)

\* No filled sell that closes a positive position turns a non-negative cash
\* balance negative.  (It does: a sell of far more than is held pays
\* commission on the whole quantity ordered.)
C40_NoOversellDebt ==
    ~(/\ bcLast = "FILLED"
      /\ bcCash.sign < 0
      /\ bcBefore.cash.sign >= 0
      /\ bcBefore.pos.held /\ bcBefore.pos.quantity > 0
      /\ ~bcPos.held)

=============================================================================
